---- MODULE Spec2Model ----
(***************************************************************************)
(* Model of the BaaS SMS/MMS tool server (src/baas_sms_mcp/server.py).     *)
(*                                                                         *)
(* Every tool is an async handler.  A handler runs from its entry to its   *)
(* first await (the outbound HTTP call) in one step, and from the answer   *)
(* of the remote to its return in a second step.  A handler that never     *)
(* awaits (a validation failure, get_send_history) finishes in one step.   *)
(*                                                                         *)
(* The Korean string literals of the source cannot be written in a TLA+    *)
(* string; each is written as an ASCII stand-in and the comment where it   *)
(* is used gives the source literal.                                       *)
(***************************************************************************)
EXTENDS Integers, Sequences, FiniteSets, TLC

VARIABLES
    BAAS_API_KEY,   \* module global read from the environment at import
    client,         \* module global: the httpx.AsyncClient made at import
    main,           \* where main() is: "start" | "run" | "finally" | "finally_raise"
                    \*                  | "returned" | "raised"
    pc,             \* pc[p]: "off" | "idle" | "awaiting" | "done"
    tool,           \* tool[p]: name of the tool slot p is running
    args,           \* args[p]: the arguments of that invocation
    net,            \* net[p]: requests this invocation handed to the client
    response,       \* response[p]: what the remote answered to its last request
    frame,          \* frame[p]: locals the handler keeps from one await to the next
    result          \* result[p]: the mapping the handler returned

vars == <<BAAS_API_KEY, client, main, pc, tool, args, net, response, frame, result>>

\* Invocation slots of the hosting runtime.
Procs == {1, 2}

----------------------------------------------------------------------------
(* Program constants *)

API_BASE_URL == "https://api.aiapp.link"

\* len(recipients) > 1000
MAX_RECIPIENTS == 1000
\* len(message) > 2000
MAX_MESSAGE_LEN == 2000
\* len(subject) > 40
MAX_SUBJECT_LEN == 40
\* len(image_urls) > 5
MAX_IMAGES == 5
\* limit > 100
MAX_LIMIT == 100
\* "channel_id": 1  # SMS channel
SMS_CHANNEL == 1
\* "channel_id": 3  # MMS channel
MMS_CHANNEL == 3
\* response.status_code == 200
HTTP_OK == 200

\* "성공"
RESULT_SUCCESS == "seonggong"
\* "실패"
RESULT_FAILED == "silpae"
\* "전송중"
STATUS_SENDING == "jeonsongjung"
\* "부분성공"
STATUS_PARTIAL == "bubunseonggong"

----------------------------------------------------------------------------
(* Bounds of the model *)

\* small sizes tried besides the boundary values of each length check
MaxSmall == 1
\* longest list of delivery records the remote returns
MaxRecords == 3
\* largest group id
MaxGroupId == 2

----------------------------------------------------------------------------
(* Python values *)

\* Optional[...]: None, or a value
None == [has |-> FALSE]
Some(v) == [has |-> TRUE, val |-> v]

\* a str of n characters (message, subject), for which only len() is taken
Str(n) == [i \in 1..n |-> "x"]

\* a list of n recipients
Recipient(i) == [phone_number |-> "010-0000-0000", member_code |-> i]
RecipientList(n) == [i \in 1..n |-> Recipient(i)]

\* a list of n image URLs
UrlList(n) == [i \in 1..n |-> "https://img/" \o ToString(i)]

\* JSON values, tagged with their Python type
JNull == [t |-> "null"]
JBool(b) == [t |-> "bool", v |-> b]
JInt(n) == [t |-> "int", v |-> n]
JStr(s) == [t |-> "str", v |-> s]
JArr(s) == [t |-> "list", v |-> s]
JObj(f) == [t |-> "dict", v |-> f]
JEmptyObj == [t |-> "dict", v |-> <<>>]

\* Python ==
PyEq(a, b) == a.t = b.t /\ (a.t = "null" \/ a.v = b.v)

\* Python truth value of a JSON value
Truthy(j) ==
    CASE j.t = "null" -> FALSE
      [] j.t = "bool" -> j.v
      [] j.t = "int"  -> j.v # 0
      [] j.t = "str"  -> j.v # ""
      [] j.t = "list" -> Len(j.v) > 0
      [] j.t = "dict" -> DOMAIN j.v # {}

\* dict.get(key, default)
Get(d, key, default) == IF key \in DOMAIN d.v THEN d.v[key] ELSE default

----------------------------------------------------------------------------
(* What a handler does up to its first await, and what the client answers *)

\* the handler returned r
Return(r) == [kind |-> "return", result |-> r]
\* the handler handed req to the shared client and awaits the answer
Await(req) == [kind |-> "await", request |-> req]

\* a failure that has no error_code
Failure_nocode(error, code) == [success |-> FALSE, error |-> error]

\* {"success": False, "error": ..., "error_code": ...}
Failure(error, code) == [success |-> FALSE, error |-> error, error_code |-> code]

\* headers = {"X-API-KEY": f"{BAAS_API_KEY}", "Content-Type": "application/json"}
Headers == [x_api_key |-> BAAS_API_KEY, content_type |-> "application/json"]

\* the awaited call raised (transport error, timeout)
Raised(e) == [kind |-> "raise", exc |-> e]
\* the awaited call returned a response; body.json says whether
\* response.json() parses, body.val is the parsed value
Http(code, body) == [kind |-> "http", status_code |-> code, body |-> body]
NotJson == [json |-> FALSE]
Json(j) == [json |-> TRUE, val |-> j]

\* the text without the status code
ApiErrorText_nocode(code) == "API call failed"

\* f"API 호출이 실패했습니다 (상태코드: {response.status_code})"
ApiErrorText(code) == "API call failed (status code: " \o ToString(code) \o ")"

----------------------------------------------------------------------------
(* send_sms *)

\* "프로젝트 ID가 필요합니다"
MissingProjectId == Failure(JStr("project ID is required"), JStr("MISSING_PROJECT_ID"))
\* "수신자 수는 1명 이상 1000명 이하여야 합니다"
InvalidRecipientsCount ==
    Failure(JStr("recipient count must be between 1 and 1000"),
            JStr("INVALID_RECIPIENTS_COUNT"))
\* "메시지 길이가 2000자를 초과했습니다"
MessageTooLong ==
    Failure(JStr("message length exceeds 2000 characters"), JStr("MESSAGE_TOO_LONG"))

\* the check made for None only: if project_id is None
NoProjectId_none(project_id) == FALSE

\* if not project_id
NoProjectId(project_id) == project_id = ""

\* the upper limit taken exclusive: len(recipients) >= 1000
BadRecipients_ge(recipients) ==
    Len(recipients) = 0 \/ Len(recipients) >= MAX_RECIPIENTS

\* if not recipients or len(recipients) > 1000
BadRecipients(recipients) == Len(recipients) = 0 \/ Len(recipients) > MAX_RECIPIENTS

\* the limit taken exclusive: len(message) >= 2000
BadMessage_ge(message) == Len(message) >= MAX_MESSAGE_LEN

\* if len(message) > 2000
BadMessage(message) == Len(message) > MAX_MESSAGE_LEN

\* the payload with the channel of the other send tool
send_sms_payload_mms(a) ==
    [recipients |-> a.recipients, message |-> a.message,
     callback_number |-> a.callback_number, project_id |-> a.project_id,
     channel_id |-> MMS_CHANNEL]

send_sms_payload(a) ==
    [recipients |-> a.recipients, message |-> a.message,
     callback_number |-> a.callback_number, project_id |-> a.project_id,
     channel_id |-> SMS_CHANNEL]

\* the checks with the one of the recipients made first
send_sms_begin_recipientsFirst(a) ==
    IF BadRecipients(a.recipients) THEN Return(InvalidRecipientsCount)
    ELSE IF NoProjectId(a.project_id) THEN Return(MissingProjectId)
    ELSE IF BadMessage(a.message) THEN Return(MessageTooLong)
    ELSE Await([method |-> "POST", url |-> API_BASE_URL \o "/message/sms",
                json |-> send_sms_payload(a), headers |-> Headers])

\* entry to `await client.post(...)`
send_sms_begin(a) ==
    IF NoProjectId(a.project_id) THEN Return(MissingProjectId)
    ELSE IF BadRecipients(a.recipients) THEN Return(InvalidRecipientsCount)
    ELSE IF BadMessage(a.message) THEN Return(MessageTooLong)
    ELSE Await([method |-> "POST", url |-> API_BASE_URL \o "/message/sms",
                json |-> send_sms_payload(a), headers |-> Headers])

\* result["data"]["group_id"] raises unless data is a dict holding group_id
HasGroupId(r) ==
    /\ "data" \in DOMAIN r.v
    /\ r.v["data"].t = "dict"
    /\ "group_id" \in DOMAIN r.v["data"].v

\* an exception raised inside the handler's try block
Raise(e) == [exc |-> e]
IsRaise(o) == "exc" \in DOMAIN o

\* the except clause reporting a success
SmsInternalError_success(e) == [success |-> TRUE, message |-> "SMS sent"]

\* f"SMS 전송에 실패했습니다: {str(e)}"
SmsInternalError(e) == Failure(JStr("SMS send failed: " \o e), JStr("INTERNAL_ERROR"))

\* the remote error_code dropped: "error_code": "UNKNOWN_ERROR"
send_sms_try_nocode(a, resp) ==
    IF resp.status_code = HTTP_OK
    THEN IF ~resp.body.json THEN Raise("JSONDecodeError")
         ELSE LET r == resp.body.val IN
              IF r.t # "dict" THEN Raise("AttributeError")
              ELSE IF Truthy(Get(r, "success", JNull))
              THEN IF ~HasGroupId(r) THEN Raise("KeyError")
                   ELSE [success |-> TRUE,
                         group_id |-> r.v["data"].v["group_id"],
                         message |-> "SMS sent",
                         sent_count |-> Len(a.recipients),
                         failed_count |-> 0]
              ELSE Failure(Get(r, "message", JStr("Unknown error")),
                           JStr("UNKNOWN_ERROR"))
    ELSE Failure(JStr(ApiErrorText(resp.status_code)), JStr("API_ERROR"))

\* `if response.status_code == 200:` to the end of the try block
send_sms_try(a, resp) ==
    IF resp.status_code = HTTP_OK
    THEN IF ~resp.body.json THEN Raise("JSONDecodeError")
         ELSE LET r == resp.body.val IN
              IF r.t # "dict" THEN Raise("AttributeError")
              ELSE IF Truthy(Get(r, "success", JNull))
              THEN IF ~HasGroupId(r) THEN Raise("KeyError")
                   ELSE [success |-> TRUE,
                         group_id |-> r.v["data"].v["group_id"],
                         message |-> "SMS sent",   \* "SMS가 성공적으로 전송되었습니다"
                         sent_count |-> Len(a.recipients),
                         failed_count |-> 0]
              ELSE Failure(Get(r, "message", JStr("Unknown error")),
                           Get(r, "error_code", JStr("UNKNOWN_ERROR")))
    ELSE Failure(JStr(ApiErrorText(resp.status_code)), JStr("API_ERROR"))

\* the transport exception let out of the handler
send_sms_end_uncaught(a, resp) ==
    IF resp.kind = "raise" THEN Raise(resp.exc)
    ELSE LET o == send_sms_try(a, resp) IN
         IF IsRaise(o) THEN SmsInternalError(o.exc) ELSE o

\* from the answer of client.post to the return
send_sms_end(a, resp) ==
    IF resp.kind = "raise" THEN SmsInternalError(resp.exc)
    ELSE LET o == send_sms_try(a, resp) IN
         IF IsRaise(o) THEN SmsInternalError(o.exc) ELSE o

----------------------------------------------------------------------------
(* send_mms *)

\* "제목 길이가 40자를 초과했습니다"
SubjectTooLong ==
    Failure(JStr("subject length exceeds 40 characters"), JStr("SUBJECT_TOO_LONG"))
\* "최대 5개의 이미지만 첨부 가능합니다"
TooManyImages ==
    Failure(JStr("at most 5 images can be attached"), JStr("TOO_MANY_IMAGES"))

\* truth value of an Optional[List]: None and [] are false
ListTruthy(o) == o.has /\ Len(o.val) > 0

\* the limit taken exclusive: len(subject) >= 40
BadSubject_ge(subject) == Len(subject) >= MAX_SUBJECT_LEN

\* if len(subject) > 40
BadSubject(subject) == Len(subject) > MAX_SUBJECT_LEN

\* the limit taken exclusive: len(image_urls) >= 5
BadImages_ge(image_urls) == ListTruthy(image_urls) /\ Len(image_urls.val) >= MAX_IMAGES

\* if image_urls and len(image_urls) > 5
BadImages(image_urls) == ListTruthy(image_urls) /\ Len(image_urls.val) > MAX_IMAGES

\* image_urls or []
ImagesOrEmpty(image_urls) == IF ListTruthy(image_urls) THEN image_urls.val ELSE <<>>

\* the payload with the channel of the other send tool
send_mms_payload_sms(a) ==
    [recipients |-> a.recipients, message |-> a.message, subject |-> a.subject,
     callback_number |-> a.callback_number, project_id |-> a.project_id,
     channel_id |-> SMS_CHANNEL, img_url_list |-> ImagesOrEmpty(a.image_urls)]

send_mms_payload(a) ==
    [recipients |-> a.recipients, message |-> a.message, subject |-> a.subject,
     callback_number |-> a.callback_number, project_id |-> a.project_id,
     channel_id |-> MMS_CHANNEL, img_url_list |-> ImagesOrEmpty(a.image_urls)]

\* entry to `await client.post(...)`
send_mms_begin(a) ==
    IF NoProjectId(a.project_id) THEN Return(MissingProjectId)
    ELSE IF BadRecipients(a.recipients) THEN Return(InvalidRecipientsCount)
    ELSE IF BadMessage(a.message) THEN Return(MessageTooLong)
    ELSE IF BadSubject(a.subject) THEN Return(SubjectTooLong)
    ELSE IF BadImages(a.image_urls) THEN Return(TooManyImages)
    ELSE Await([method |-> "POST", url |-> API_BASE_URL \o "/message/mms",
                json |-> send_mms_payload(a), headers |-> Headers])

\* f"MMS 전송에 실패했습니다: {str(e)}"
MmsInternalError(e) == Failure(JStr("MMS send failed: " \o e), JStr("INTERNAL_ERROR"))

\* `if response.status_code == 200:` to the end of the try block
send_mms_try(a, resp) ==
    IF resp.status_code = HTTP_OK
    THEN IF ~resp.body.json THEN Raise("JSONDecodeError")
         ELSE LET r == resp.body.val IN
              IF r.t # "dict" THEN Raise("AttributeError")
              ELSE IF Truthy(Get(r, "success", JNull))
              THEN IF ~HasGroupId(r) THEN Raise("KeyError")
                   ELSE [success |-> TRUE,
                         group_id |-> r.v["data"].v["group_id"],
                         message |-> "MMS sent",   \* "MMS가 성공적으로 전송되었습니다"
                         sent_count |-> Len(a.recipients),
                         failed_count |-> 0]
              ELSE Failure(Get(r, "message", JStr("Unknown error")),
                           Get(r, "error_code", JStr("UNKNOWN_ERROR")))
    ELSE Failure(JStr(ApiErrorText(resp.status_code)), JStr("API_ERROR"))

\* from the answer of client.post to the return
send_mms_end(a, resp) ==
    IF resp.kind = "raise" THEN MmsInternalError(resp.exc)
    ELSE LET o == send_mms_try(a, resp) IN
         IF IsRaise(o) THEN MmsInternalError(o.exc) ELSE o

----------------------------------------------------------------------------
(* get_message_status *)

\* f"메시지 상태 조회에 실패했습니다: {str(e)}"
StatusInternalError(e) ==
    Failure(JStr("message status query failed: " \o e), JStr("INTERNAL_ERROR"))

\* the URL without the group: f"{API_BASE_URL}/message/send_history/sms/messages"
StatusUrl_nogroup(group_id) == API_BASE_URL \o "/message/send_history/sms/messages"

\* f"{API_BASE_URL}/message/send_history/sms/{group_id}/messages"
StatusUrl(group_id) ==
    API_BASE_URL \o "/message/send_history/sms/" \o ToString(group_id) \o "/messages"

\* entry to `await client.get(...)`
get_message_status_begin(a) ==
    Await([method |-> "GET", url |-> StatusUrl(a.group_id), headers |-> Headers])

\* a record without label counted for every label:
\* msg.get("result", label) == label
CountResult_default(messages, label) ==
    Cardinality({i \in 1..Len(messages) :
                    PyEq(Get(messages[i], "result", JStr(label)), JStr(label))})

\* sum(1 for msg in messages if msg.get("result") == label)
CountResult(messages, label) ==
    Cardinality({i \in 1..Len(messages) :
                    PyEq(Get(messages[i], "result", JNull), JStr(label))})

\* the failure looked at before the pending records
OverallStatus_failedFirst(success_count, failed_count, pending_count) ==
    IF failed_count > 0 /\ success_count = 0 THEN RESULT_FAILED
    ELSE IF pending_count > 0 THEN STATUS_SENDING
    ELSE IF failed_count = 0 THEN RESULT_SUCCESS ELSE STATUS_PARTIAL

\* the success count looked at before the failed count
OverallStatus_successFirst(success_count, failed_count, pending_count) ==
    IF pending_count > 0 THEN STATUS_SENDING
    ELSE IF success_count = 0 THEN RESULT_FAILED
    ELSE IF failed_count = 0 THEN RESULT_SUCCESS ELSE STATUS_PARTIAL

\* the if / elif / else that determines the overall status
OverallStatus(success_count, failed_count, pending_count) ==
    IF pending_count > 0 THEN STATUS_SENDING
    ELSE IF failed_count = 0 THEN RESULT_SUCCESS
    ELSE IF success_count = 0 THEN RESULT_FAILED ELSE STATUS_PARTIAL

\* the statistics and the returned mapping, for a list of dicts
GroupStatus(group_id, messages) ==
    LET total_count   == Len(messages)
        success_count == CountResult(messages, RESULT_SUCCESS)
        failed_count  == CountResult(messages, RESULT_FAILED)
        pending_count == total_count - success_count - failed_count
    IN [group_id |-> group_id,
        status |-> OverallStatus(success_count, failed_count, pending_count),
        total_count |-> total_count,
        success_count |-> success_count,
        failed_count |-> failed_count,
        pending_count |-> pending_count,
        messages |-> [i \in 1..Len(messages) |->
                        [phone  |-> Get(messages[i], "phone", JStr("")),
                         name   |-> Get(messages[i], "name", JStr("")),
                         status |-> Get(messages[i], "result", JStr("")),
                         reason |-> Get(messages[i], "reason", JNull)]]]

\* `if response.status_code == 200:` to the end of the try block.
\* len() raises on a data that has no length; msg.get raises on an element
\* that is no dict (the characters of a str, the keys of a dict included).
get_message_status_try(a, resp) ==
    IF resp.status_code = HTTP_OK
    THEN IF ~resp.body.json THEN Raise("JSONDecodeError")
         ELSE LET r == resp.body.val IN
              IF r.t # "dict" THEN Raise("AttributeError")
              ELSE IF Truthy(Get(r, "success", JNull))
              THEN LET data == Get(r, "data", JArr(<<>>)) IN
                   IF data.t \notin {"list", "dict", "str"} THEN Raise("TypeError")
                   ELSE IF data.t # "list"
                   THEN IF Truthy(data) THEN Raise("AttributeError")
                        ELSE GroupStatus(a.group_id, <<>>)
                   ELSE IF \E i \in 1..Len(data.v) : data.v[i].t # "dict"
                   THEN Raise("AttributeError")
                   ELSE GroupStatus(a.group_id, data.v)
              \* "메시지 상태 조회에 실패했습니다"
              ELSE Failure(Get(r, "message", JStr("message status query failed")),
                           Get(r, "error_code", JStr("UNKNOWN_ERROR")))
    ELSE Failure(JStr(ApiErrorText(resp.status_code)), JStr("API_ERROR"))

\* from the answer of client.get to the return
get_message_status_end(a, resp) ==
    IF resp.kind = "raise" THEN StatusInternalError(resp.exc)
    ELSE LET o == get_message_status_try(a, resp) IN
         IF IsRaise(o) THEN StatusInternalError(o.exc) ELSE o

----------------------------------------------------------------------------
(* get_send_history *)

\* the limit echoed as given
ClampLimit_none(limit) == limit

\* if limit > 100: limit = 100
ClampLimit(limit) == IF limit > MAX_LIMIT THEN MAX_LIMIT ELSE limit
\* if offset < 0: offset = 0
ClampOffset(offset) == IF offset < 0 THEN 0 ELSE offset
\* if message_type not in ["SMS", "MMS", "ALL"]: message_type = "ALL"
NormalType(message_type) ==
    IF message_type \notin {"SMS", "MMS", "ALL"} THEN "ALL" ELSE message_type

\* the whole handler: it awaits nothing
get_send_history(a) ==
    IF NoProjectId(a.project_id) THEN MissingProjectId
    ELSE [success |-> TRUE,
          data |-> [project_id |-> a.project_id,
                    total_count |-> 0,
                    offset |-> ClampOffset(a.offset),
                    limit |-> ClampLimit(a.limit),
                    message_type |-> NormalType(a.message_type),
                    history |-> <<>>],
          \* "전송 기록 엔드포인트가 아직 API에 구현되지 않았습니다"
          message |-> "send history endpoint is not implemented in the API yet"]

----------------------------------------------------------------------------
(* Text *)

(***************************************************************************)
(* A str of the template tools (a language, a URL part, a markdown file, a *)
(* source text) is a sequence of atoms: pieces of text no operation of the *)
(* program cuts.  "javascript" is <<"java", "script">>, so that "java" is  *)
(* a prefix of it as it is for the regular expression of                   *)
(* generate_direct_api_code.                                               *)
(***************************************************************************)

\* the characters of a text, in one string
RECURSIVE Join(_)
Join(s) == IF s = <<>> THEN "" ELSE Head(s) \o Join(Tail(s))

\* str.lower() of one atom: the atoms of the inputs that have upper case
LowerAtom(a) ==
    CASE a = "Py" -> "py"
      [] a = "Java" -> "java"
      [] a = "Script" -> "script"
      [] a = "Vue" -> "vue"
      [] a = "AWS" -> "aws"
      [] a = "Netlify" -> "netlify"
      [] a = "Staging" -> "staging"
      [] a = "Acme" -> "acme"
      [] a = "Corp" -> "corp"
      [] a = "Your" -> "your"
      [] a = "Company" -> "company"
      [] OTHER -> a

\* str.lower()
Lower(s) == [i \in DOMAIN s |-> LowerAtom(s[i])]

\* s[i:i+len(pat)] == pat
IsAt(s, i, pat) ==
    /\ i + Len(pat) - 1 <= Len(s)
    /\ SubSeq(s, i, i + Len(pat) - 1) = pat

\* str.replace(old, new), old not empty: the occurrences of old are taken
\* from the left and do not overlap
RECURSIVE Replace(_, _, _)
Replace(s, old, new) ==
    IF s = <<>> THEN <<>>
    ELSE IF IsAt(s, 1, old)
    THEN new \o Replace(SubSeq(s, Len(old) + 1, Len(s)), old, new)
    ELSE <<Head(s)>> \o Replace(Tail(s), old, new)

\* str.strip(): the whitespace of the texts is the blank and the newline
Strip(s) ==
    LET blank(i) == s[i] \in {" ", "\n"}
        kept == {i \in 1..Len(s) : ~blank(i)}
    IN IF kept = {} THEN <<>>
       ELSE SubSeq(s, CHOOSE i \in kept : \A k \in kept : i <= k,
                      CHOOSE j \in kept : \A k \in kept : j >= k)

\* the smallest element of a non-empty set of numbers
Min(S) == CHOOSE x \in S : \A y \in S : x <= y

\* `if framework` / `if deployment_platform`: neither None nor ""
StrTruthy(o) == o.has /\ o.val # <<>>

\* framework.lower() if framework else None
LowerOrNone(o) == IF StrTruthy(o) THEN Some(Lower(o.val)) ELSE None

Javascript == <<"java", "script">>
Python == <<"py", "thon">>

----------------------------------------------------------------------------
(* get_code_template_url *)

\* base_url = "https://cdn.mbaas.kr/templates/sms-mms"
TEMPLATE_URL_BASE == "https://cdn.mbaas.kr/templates/sms-mms"

\* the list without go
SupportedLanguages_nogo ==
    <<Javascript, Python, <<"php">>, <<"java">>, <<"csharp">>>>

\* supported_languages
SupportedLanguages ==
    <<Javascript, Python, <<"php">>, <<"java">>, <<"go">>, <<"csharp">>>>

\* the path that takes no framework
TemplatePath_vanilla(language, framework) ==
    Join(language) \o "/" \o "vanilla"

\* template_path: language, then "/{framework}" or "/vanilla"
TemplatePath(language, framework) ==
    Join(language) \o "/" \o (IF StrTruthy(framework) THEN Join(framework.val) ELSE "vanilla")

\* the whole handler: it awaits nothing, and for arguments of the annotated
\* types no statement of its try block raises.  The fields cdn_info and
\* message of the result are left out.
get_code_template_url(a) ==
    LET language  == Lower(a.language)
        framework == LowerOrNone(a.framework)
        platform  == LowerOrNone(a.deployment_platform)
        template_url == TEMPLATE_URL_BASE \o "/" \o TemplatePath(language, framework) \o ".md"
        integration_url ==
            IF StrTruthy(platform)
            THEN Some(TEMPLATE_URL_BASE \o "/deployment/" \o Join(platform.val) \o ".md")
            ELSE None
    IN IF \A i \in DOMAIN SupportedLanguages : SupportedLanguages[i] # language
       \* "언어 '{language}'는 아직 지원되지 않습니다"
       THEN [success |-> FALSE,
             error |-> JStr("language " \o Join(language) \o " is not supported yet"),
             supported_languages |-> SupportedLanguages,
             error_code |-> JStr("UNSUPPORTED_LANGUAGE")]
       ELSE [success |-> TRUE,
             language |-> language,
             framework |-> framework,
             deployment_platform |-> platform,
             template_url |-> template_url,
             integration_url |-> integration_url,
             api_endpoint |-> "https://api.aiapp.link",
             configuration |->
                 [required_env_vars |-> <<"BAAS_API_KEY", "BAAS_PROJECT_ID">>,
                  installation_guide |->
                      TEMPLATE_URL_BASE \o "/setup/" \o Join(language) \o ".md"]]

----------------------------------------------------------------------------
(* The embedded generators *)

\* base_code, then the part of the framework, then the usage examples, then
\* the exports
generate_javascript_code(framework, include_examples) ==
    <<"/* BaaS SMS/MMS Direct API Client */", "\n", "class BaaSMessageService", " ", "{ js }">>
        \o (IF framework = Some(<<"react">>)
            THEN <<"\n", "/* React Hook for BaaS SMS service */">>
            ELSE IF framework = Some(<<"vue">>)
            THEN <<"\n", "/* Vue 3 Composition API for BaaS SMS service */">>
            ELSE <<>>)
        \o (IF include_examples
            THEN <<"\n", "// Usage Examples", "your-project-id", "02-1234-5678",
                   "02-1234-5678", "your-project-id">>
            ELSE <<>>)
        \o <<"\n", "// Node.js export", "// ES6 export">>

\* base_code, then the part of the framework, then the usage examples
generate_python_code(framework, include_examples) ==
    <<"# BaaS SMS/MMS Direct API Client", "\n", "class BaaSMessageService", ":", "py">>
        \o (IF framework = Some(<<"django">>) THEN <<"\n", "# Django integration">>
            ELSE IF framework = Some(<<"fastapi">>) THEN <<"\n", "# FastAPI integration">>
            ELSE <<>>)
        \o (IF include_examples
            THEN <<"\n", "# Usage Examples", "your-project-id", "02-1234-5678",
                   "02-1234-5678">>
            ELSE <<>>)

\* base_code, then the part of the framework, then the usage examples
generate_php_code(framework, include_examples) ==
    <<"<?php", "\n", "class BaaSMessageService", " ", "{ php }">>
        \o (IF framework = Some(<<"laravel">>)
            THEN <<"\n", "/* Laravel Service Provider integration */">>
            ELSE <<>>)
        \o (IF include_examples
            THEN <<"\n", "// Usage Examples", "your-project-id", "02-1234-5678",
                   "02-1234-5678", "?>">>
            ELSE <<>>)

----------------------------------------------------------------------------
(* generate_direct_api_code *)

\* base_url = "https://cdn.baas-templates.com/sms-mms"
CDN_BASE_URL == "https://cdn.baas-templates.com/sms-mms"

\* the body of a CDN answer: response.text
Text(t) == [json |-> FALSE, text |-> t]

\* template_url = f"{base_url}/{template_path}.md"
TemplateUrl(language, framework) ==
    CDN_BASE_URL \o "/" \o TemplatePath(language, framework) \o ".md"

\* entry to `await client.get(template_url)`
generate_direct_api_code_begin(a) ==
    Await([method |-> "GET",
           url |-> TemplateUrl(Lower(a.language), LowerOrNone(a.framework))])

\* the fence of a markdown code block: three backquotes, written with quotes
Fence == "'''"

\* where f'```{language}(.*?)```' matches with re.DOTALL: the fence and the
\* language, then anything up to a later fence.  The languages of the model
\* hold no character that is special in a regular expression.
BlockStarts(content, language) ==
    {i \in 1..Len(content) :
        /\ IsAt(content, i, <<Fence>> \o language)
        /\ \E j \in (i + 1 + Len(language))..Len(content) : content[j] = Fence}

\* code_blocks[0]: the group of the leftmost match, which ends at the first
\* fence after the language
FirstBlock(content, language) ==
    LET i == Min(BlockStarts(content, language))
        b == i + 1 + Len(language)
        j == Min({k \in b..Len(content) : content[k] = Fence})
    IN SubSeq(content, b, j - 1)

\* the chain of the two fallbacks without its php branch
LocalCode_nophp(language, framework, include_examples) ==
    IF language = Javascript \/ language = <<"js">>
    THEN Some(generate_javascript_code(framework, include_examples))
    ELSE IF language = Python \/ language = <<"py">>
    THEN Some(generate_python_code(framework, include_examples))
    ELSE None

\* the if / elif chain of the two fallbacks: the local source, or None for
\* a language that has no generator
LocalCode(language, framework, include_examples) ==
    IF language = Javascript \/ language = <<"js">>
    THEN Some(generate_javascript_code(framework, include_examples))
    ELSE IF language = Python \/ language = <<"py">>
    THEN Some(generate_python_code(framework, include_examples))
    ELSE IF language = <<"php">>
    THEN Some(generate_php_code(framework, include_examples))
    ELSE None

\* the local source taken when no block matches
ExtractCode_local(content, language) ==
    IF BlockStarts(content, language) # {}
    THEN Strip(FirstBlock(content, language))
    ELSE LET local == LocalCode(language, None, TRUE)
         IN IF local.has THEN local.val ELSE content

\* if code_blocks: code = code_blocks[0].strip() else: code = template_content
ExtractCode(content, language) ==
    IF BlockStarts(content, language) # {}
    THEN Strip(FirstBlock(content, language))
    ELSE content

\* the result of the non-200 branch with the error code of the except branch
TemplateUnavailable_failed(language) ==
    [success |-> FALSE,
     error |-> JStr("no template from the CDN and no local generation for language "
                        \o Join(language)),
     supported_languages |-> <<Javascript, Python, <<"php">>>>,
     error_code |-> JStr("GENERATION_FAILED")]

\* "CDN에서 템플릿을 가져올 수 없고, 언어 '{language}'는 로컬 생성을 지원하지 않습니다"
TemplateUnavailable(language) ==
    [success |-> FALSE,
     error |-> JStr("no template from the CDN and no local generation for language "
                        \o Join(language)),
     supported_languages |-> <<Javascript, Python, <<"php">>>>,
     error_code |-> JStr("TEMPLATE_UNAVAILABLE")]

\* f"CDN 오류 및 로컬 생성 불가: {str(cdn_error)}"
GenerationFailed(e) ==
    Failure(JStr("CDN error and no local generation: " \o e), JStr("GENERATION_FAILED"))

\* extensions.get(language, language)
Extension(language) ==
    IF language \in {Javascript, <<"js">>} THEN "js"
    ELSE IF language \in {Python, <<"py">>} THEN "py"
    ELSE Join(language)

\* config_instructions.get(language, {}), of which the install line is kept
Configuration(language) ==
    IF language = Javascript THEN Some("npm install (dependencies included in template)")
    ELSE IF language = Python THEN Some("pip install requests")
    ELSE IF language = <<"php">> THEN Some("cURL extension required (usually included)")
    ELSE None

\* the success result; source says whether template_content was assigned.
\* The fields description and message are left out.
GeneratedCode(language, framework, code, from_cdn) ==
    [success |-> TRUE,
     language |-> language,
     framework |-> framework,
     code |-> code,
     filename |-> "baas-sms-service." \o Extension(language),
     source |-> IF from_cdn THEN "CDN template" ELSE "Local generation",
     template_url |-> TemplateUrl(language, framework),
     configuration |-> Configuration(language),
     api_endpoint |-> "https://api.aiapp.link"]

\* from the answer of client.get to the return
generate_direct_api_code_end(a, resp) ==
    LET language  == Lower(a.language)
        framework == LowerOrNone(a.framework)
        local     == LocalCode(language, framework, a.include_examples)
    IN IF resp.kind = "raise"
       THEN IF local.has THEN GeneratedCode(language, framework, local.val, FALSE)
            ELSE GenerationFailed(resp.exc)
       ELSE IF resp.status_code = HTTP_OK
       THEN GeneratedCode(language, framework,
                          ExtractCode(resp.body.text, language), TRUE)
       ELSE IF local.has THEN GeneratedCode(language, framework, local.val, FALSE)
       ELSE TemplateUnavailable(language)

----------------------------------------------------------------------------
(* create_message_service_template *)

\* project_config.get(key, default)
ConfigGet(project_config, key, default) ==
    IF key \in DOMAIN project_config THEN project_config[key] ELSE default

\* the defaults of project_config.get, which are the placeholders of the code
YourProjectId == <<"your-project-id">>
DefaultCallback == <<"02-1234-5678">>
YourCompany == <<"Your", " ", "Company">>

\* the arguments of `generate_direct_api_code(language, None, True)`
BaseArgs(a) == [language |-> a.language, framework |-> None, include_examples |-> TRUE]

\* entry to the await inside generate_direct_api_code
create_message_service_template_begin(a) == generate_direct_api_code_begin(BaseArgs(a))

\* helpers_url
HelpersUrl(language) == CDN_BASE_URL \o "/helpers/" \o Join(language) \o "-project.md"

\* from the answer to the template request to `await client.get(helpers_url)`,
\* or to the return of the failure of the base generator
create_message_service_template_base(a, resp) ==
    LET base_result == generate_direct_api_code_end(BaseArgs(a), resp)
    IN IF ~base_result.success THEN Return(base_result)
       ELSE Await([method |-> "GET", url |-> HelpersUrl(a.language)])

\* the value of code when the helpers are requested: the code of the base
\* result after the three code.replace of the placeholders
CustomizedCode(a, resp) ==
    LET code == generate_direct_api_code_end(BaseArgs(a), resp).code
        project_id       == ConfigGet(a.project_config, "project_id", YourProjectId)
        default_callback == ConfigGet(a.project_config, "default_callback", DefaultCallback)
        company_name     == ConfigGet(a.project_config, "company_name", YourCompany)
    IN Replace(Replace(Replace(code, YourProjectId, project_id),
                       DefaultCallback, default_callback),
               YourCompany, company_name)

\* the three replace of the helpers template
HelpersCode(helpers_template, project_id, default_callback, company_name) ==
    Replace(Replace(Replace(helpers_template, <<"{{company_name}}">>, company_name),
                    <<"{{project_id}}">>, project_id),
            <<"{{default_callback}}">>, default_callback)

\* project_helpers, the f-string of the except clause
ProjectHelpers(project_id, default_callback, company_name) ==
    <<"\n", "// ">> \o company_name \o <<" Project-Specific Helpers", "\n", "PROJECT_ID: ">>
        \o project_id \o <<"DEFAULT_CALLBACK: ">> \o default_callback
        \o <<"COMPANY_NAME: ">> \o company_name
        \o <<"\n", "sendVerificationSMS", "[">> \o company_name
        \o <<"]", "\n", "sendOrderConfirmation", "[">> \o company_name \o <<"]">>

\* from the answer to the helpers request to the return; code is the
\* customized code.  The fields description and message are left out.
create_message_service_template_end(a, code, resp) ==
    LET project_id       == ConfigGet(a.project_config, "project_id", YourProjectId)
        default_callback == ConfigGet(a.project_config, "default_callback", DefaultCallback)
        company_name     == ConfigGet(a.project_config, "company_name", YourCompany)
        helpers ==
            IF resp.kind = "raise"
            THEN IF a.language = Javascript
                 THEN ProjectHelpers(project_id, default_callback, company_name)
                 ELSE <<>>
            ELSE IF resp.status_code = HTTP_OK
            THEN <<"\n", "\n">>
                     \o HelpersCode(resp.body.text, project_id, default_callback, company_name)
            ELSE <<>>
    IN [success |-> TRUE,
        project_config |-> a.project_config,
        language |-> a.language,
        \* if features is None: features = ["sms", "mms", "status_check"]
        features |-> IF a.features.has THEN a.features.val
                     ELSE <<"sms", "mms", "status_check">>,
        code |-> code \o helpers,
        filename |-> Join(Replace(Lower(company_name), <<" ">>, <<"_">>))
                         \o "_message_service." \o Join(a.language),
        source |-> "CDN template + project customization"]

----------------------------------------------------------------------------
(* get_integration_guide *)

\* guide_url
GuideUrl(platform, deployment_type) ==
    CDN_BASE_URL \o "/deployment/" \o Join(platform) \o "-" \o Join(deployment_type) \o ".md"

\* entry to `await client.get(guide_url)`
get_integration_guide_begin(a) ==
    Await([method |-> "GET",
           url |-> GuideUrl(Lower(a.platform), Lower(a.deployment_type))])

\* the guides without the one of docker
BasicGuides_nodocker ==
    [vercel  |-> "Vercel deployment guide",
     netlify |-> "Netlify Functions guide"]

\* basic_guides: the title of each guide stands for the guide
BasicGuides ==
    [vercel  |-> "Vercel deployment guide",
     netlify |-> "Netlify Functions guide",
     docker  |-> "Docker container deployment"]

\* deployment_notes.get(deployment_type, "")
DeploymentNote(deployment_type) ==
    CASE deployment_type = <<"development">> -> "use a .env file"
      [] deployment_type = <<"staging">> -> "use a separate project ID"
      [] deployment_type = <<"production">> -> "encrypt the environment variables"
      [] OTHER -> ""

\* from the answer of client.get to the return: an answer other than 200
\* and an exception both go on to the local guides.  The fields
\* security_checklist and message are left out.
get_integration_guide_end(a, resp) ==
    LET platform        == Lower(a.platform)
        deployment_type == Lower(a.deployment_type)
    IN IF resp.kind = "http" /\ resp.status_code = HTTP_OK
       THEN [success |-> TRUE,
             platform |-> platform,
             deployment_type |-> deployment_type,
             guide_content |-> resp.body.text,
             source |-> "CDN",
             guide_url |-> GuideUrl(platform, deployment_type)]
       ELSE IF Join(platform) \notin DOMAIN BasicGuides
       \* "플랫폼 '{platform}'에 대한 가이드가 아직 준비되지 않았습니다"
       THEN [success |-> FALSE,
             error |-> JStr("no guide for platform " \o Join(platform) \o " yet"),
             available_platforms |-> <<"vercel", "netlify", "docker">>,
             cdn_url |-> CDN_BASE_URL \o "/deployment/",
             error_code |-> JStr("PLATFORM_NOT_SUPPORTED")]
       ELSE [success |-> TRUE,
             platform |-> platform,
             deployment_type |-> deployment_type,
             guide |-> BasicGuides[Join(platform)],
             source |-> "Local fallback",
             deployment_notes |-> DeploymentNote(deployment_type)]

----------------------------------------------------------------------------
(* Inputs of the tools *)

\* lengths around a length check: a few small ones, the limit, one past it
Lengths(limit) == (0..MaxSmall) \cup {limit, limit + 1}
\* lengths of a text, of which only the length check reads the length
TextLengths(limit) == {MaxSmall, limit, limit + 1}

ProjectIds == {"", "proj-1"}

SmsArgs ==
    {[recipients |-> RecipientList(n), message |-> Str(m),
      callback_number |-> "02-1234-5678", project_id |-> pid] :
        n \in Lengths(MAX_RECIPIENTS), m \in TextLengths(MAX_MESSAGE_LEN),
        pid \in ProjectIds}

ImageArgs == {None} \cup {Some(UrlList(n)) : n \in Lengths(MAX_IMAGES)}

MmsArgs ==
    {[recipients |-> RecipientList(n), message |-> Str(m), subject |-> Str(s),
      callback_number |-> "02-1234-5678", project_id |-> pid, image_urls |-> img] :
        n \in Lengths(MAX_RECIPIENTS), m \in TextLengths(MAX_MESSAGE_LEN),
        s \in TextLengths(MAX_SUBJECT_LEN), pid \in ProjectIds, img \in ImageArgs}

GroupIds == 1..MaxGroupId

StatusArgs == {[group_id |-> g] : g \in GroupIds}

HistoryArgs ==
    {[project_id |-> pid, offset |-> off, limit |-> lim, message_type |-> mt] :
        pid \in ProjectIds, off \in {-1, 0, 5},
        lim \in {20, MAX_LIMIT, MAX_LIMIT + 1, 500},
        mt \in {"SMS", "MMS", "ALL", "LMS", ""}}

\* more blocks of a CDN markdown file than this are not tried
MaxBlocks == 2

Languages == {Javascript, <<"js">>, Python, <<"Py", "thon">>, <<"py">>, <<"php">>, <<"java">>}

TemplateUrlArgs ==
    {[language |-> l, framework |-> f, deployment_platform |-> d] :
        l \in Languages \cup {<<"go">>, <<"ruby">>},
        f \in {None, Some(<<>>), Some(<<"fastapi">>)},
        d \in {None, Some(<<"vercel">>), Some(<<"AWS">>)}}

GenerateArgs ==
    {[language |-> l, framework |-> f, include_examples |-> e] :
        l \in Languages,
        f \in {None, Some(<<"react">>), Some(<<"Vue">>), Some(<<"django">>),
               Some(<<"fastapi">>), Some(<<"laravel">>)},
        e \in BOOLEAN}

\* the configs: {}, one key, every key, and a project_id that is the text of
\* another placeholder
CreateArgs ==
    {[project_config |-> c, language |-> l, features |-> f] :
        c \in {<<>>,
               [project_id |-> <<"proj-9">>],
               [project_id |-> <<"proj-9">>, default_callback |-> <<"010-9999-0000">>,
                company_name |-> <<"Acme", " ", "Corp">>],
               [project_id |-> <<"02-1234-5678">>, default_callback |-> <<"010-9999-0000">>]},
        l \in {Javascript, Python, <<"Java", "Script">>, <<"java">>},
        f \in {None, Some(<<"sms">>)}}

GuideArgs ==
    {[platform |-> pl, deployment_type |-> d] :
        pl \in {<<"vercel">>, <<"Netlify">>, <<"docker">>, <<"heroku">>, <<>>},
        d \in {<<"production">>, <<"Staging">>, <<"qa">>}}

----------------------------------------------------------------------------
(* Answers of the remote API *)

\* status codes other than 200
ErrorStatusCodes == {404, 500}
Exceptions == {"ConnectError", "ReadTimeout"}

\* every record over the given fields, each field present or absent
RECURSIVE Objects(_, _)
Objects(keys, vals) ==
    IF keys = {} THEN {<<>>}
    ELSE LET k == CHOOSE x \in keys : TRUE
             rest == Objects(keys \ {k}, vals)
         IN rest \cup {(k :> v) @@ o : v \in vals[k], o \in rest}

\* fields of an answer that reports success, and of one that reports failure
SendValues ==
    [success    |-> {JBool(TRUE)},
     data       |-> {JNull, JEmptyObj, JObj([group_id |-> JNull])}
                        \cup {JObj([group_id |-> JInt(g)]) : g \in GroupIds}]

FailureValues ==
    [success    |-> {JBool(FALSE)},
     message    |-> {JStr("remote message")},
     error_code |-> {JStr("REMOTE_CODE")}]

\* bodies that are no JSON, or no JSON object
OddBodies == {NotJson, Json(JNull), Json(JArr(<<>>))}

SendBodies ==
    OddBodies
        \cup {Json(JObj(o)) : o \in Objects(DOMAIN SendValues, SendValues)}
        \cup {Json(JObj(o)) : o \in Objects(DOMAIN FailureValues, FailureValues)}

\* a body of each kind, for the answers whose body the handlers never read
ErrorBodies == {NotJson, Json(JObj(<<>>)), Json(JObj([success |-> JBool(TRUE)]))}

SendResponses ==
    {Raised(e) : e \in Exceptions}
        \cup {Http(HTTP_OK, b) : b \in SendBodies}
        \cup {Http(c, b) : c \in ErrorStatusCodes, b \in ErrorBodies}

\* a delivery record with the given result label, and one without label
DeliveryRecord(label) ==
    JObj([phone |-> JStr("010-0000-0000"), name |-> JStr("kim"), result |-> label])
UnlabelledRecord == JObj([phone |-> JStr("010-0000-0000")])

\* "대기" stands for any label that is neither of the two literals
ListElements ==
    {DeliveryRecord(JStr(RESULT_SUCCESS)), DeliveryRecord(JStr(RESULT_FAILED)),
     DeliveryRecord(JStr("daegi")), UnlabelledRecord, JNull}

DeliveryLists == UNION {[1..n -> ListElements] : n \in 0..MaxRecords}

StatusValues ==
    [success    |-> {JBool(TRUE)},
     data       |-> {JNull, JEmptyObj} \cup {JArr(l) : l \in DeliveryLists}]

StatusBodies ==
    OddBodies
        \cup {Json(JObj(o)) : o \in Objects(DOMAIN StatusValues, StatusValues)}
        \cup {Json(JObj(o)) : o \in Objects(DOMAIN FailureValues, FailureValues)}

StatusResponses ==
    {Raised(e) : e \in Exceptions}
        \cup {Http(HTTP_OK, b) : b \in StatusBodies}
        \cup {Http(c, b) : c \in ErrorStatusCodes, b \in ErrorBodies}

----------------------------------------------------------------------------
(* Answers of the CDN *)

\* text outside any code block
Prose == <<"# BaaS SMS template", "\n">>

\* a fenced code block with an info string, which holds the code of a template
FencedBlock(info) ==
    <<Fence>> \o info
        \o <<"\n", "// CDN " \o Join(info), "your-project-id", "Your", " ", "Company", "\n",
             Fence, "\n">>

\* the blocks of a markdown file; one is a code block whose closing fence is missing
Blocks ==
    {Prose, <<Fence>> \o Python \o <<"\n", "// cut short", "\n">>}
        \cup {FencedBlock(info) : info \in {Python, Javascript, <<"bash">>}}

\* the markdown files of up to n blocks
RECURSIVE Documents(_)
Documents(n) ==
    IF n = 0 THEN {<<>>}
    ELSE LET shorter == Documents(n - 1)
         IN shorter \cup {d \o b : d \in shorter, b \in Blocks}

NotFound == Text(<<"Not Found">>)

TemplateResponses ==
    {Raised(e) : e \in Exceptions}
        \cup {Http(HTTP_OK, Text(c)) : c \in Documents(MaxBlocks)}
        \cup {Http(c, NotFound) : c \in ErrorStatusCodes}

\* the answers to the template request of create_message_service_template
BaseTemplateResponses ==
    {Raised("ConnectError"), Http(404, NotFound), Http(HTTP_OK, Text(<<>>)),
     Http(HTTP_OK, Text(FencedBlock(Javascript))),
     Http(HTTP_OK, Text(Prose \o FencedBlock(Python)))}

HelperResponses ==
    {Raised(e) : e \in Exceptions}
        \cup {Http(HTTP_OK, Text(c)) :
                 c \in {<<>>,
                        <<"// helpers of ", "{{company_name}}", "{{project_id}}",
                          "{{default_callback}}", "{{company_name}}">>}}
        \cup {Http(404, NotFound)}

GuideResponses ==
    {Raised(e) : e \in Exceptions}
        \cup {Http(HTTP_OK, Text(c)) : c \in {<<>>, <<"# deployment guide">>}}
        \cup {Http(c, NotFound) : c \in ErrorStatusCodes}

----------------------------------------------------------------------------
(* The state machine *)

\* value of a slot's fields while it runs nothing
Nothing == [none |-> TRUE]

\* slot p starts tool t with arguments a; o is what the handler does up to
\* its first await
\* a request equal to one in flight is not handed to the client again
Start_dedup(p, t, a, o) ==
    /\ pc[p] = "idle"
    /\ tool' = [tool EXCEPT ![p] = t]
    /\ args' = [args EXCEPT ![p] = a]
    /\ IF o.kind = "return"
       THEN /\ pc' = [pc EXCEPT ![p] = "done"]
            /\ result' = [result EXCEPT ![p] = o.result]
            /\ net' = net
       ELSE /\ pc' = [pc EXCEPT ![p] = "awaiting"]
            /\ net' = IF \E q \in Procs : pc[q] = "awaiting" /\ net[q] = <<o.request>>
                      THEN net
                      ELSE [net EXCEPT ![p] = Append(@, o.request)]
            /\ result' = result
    /\ UNCHANGED <<BAAS_API_KEY, client, main, response, frame>>

Start(p, t, a, o) ==
    /\ pc[p] = "idle"
    /\ tool' = [tool EXCEPT ![p] = t]
    /\ args' = [args EXCEPT ![p] = a]
    /\ IF o.kind = "return"
       THEN /\ pc' = [pc EXCEPT ![p] = "done"]
            /\ result' = [result EXCEPT ![p] = o.result]
            /\ net' = net
       ELSE /\ pc' = [pc EXCEPT ![p] = "awaiting"]
            /\ net' = [net EXCEPT ![p] = Append(@, o.request)]
            /\ result' = result
    /\ UNCHANGED <<BAAS_API_KEY, client, main, response, frame>>

\* the awaited call of slot p ends with resp and the handler returns r
\* the answer kept in one place for all the slots
Finish_shared(p, t, resp, r) ==
    /\ pc[p] = "awaiting"
    /\ tool[p] = t
    /\ response' = [q \in Procs |-> resp]
    /\ result' = [result EXCEPT ![p] = r]
    /\ pc' = [pc EXCEPT ![p] = "done"]
    /\ UNCHANGED <<BAAS_API_KEY, client, main, tool, args, net, frame>>

Finish(p, t, resp, r) ==
    /\ pc[p] = "awaiting"
    /\ tool[p] = t
    /\ response' = [response EXCEPT ![p] = resp]
    /\ result' = [result EXCEPT ![p] = r]
    /\ pc' = [pc EXCEPT ![p] = "done"]
    /\ UNCHANGED <<BAAS_API_KEY, client, main, tool, args, net, frame>>

SendSms(p) == \E a \in SmsArgs : Start(p, "send_sms", a, send_sms_begin(a))

\* the request handed to the client once more after a transport exception
SendSmsResume_retry(p) ==
    \E resp \in SendResponses :
        IF resp.kind = "raise" /\ Len(net[p]) = 1
        THEN /\ pc[p] = "awaiting"
             /\ tool[p] = "send_sms"
             /\ net' = [net EXCEPT ![p] = Append(@, @[1])]
             /\ UNCHANGED <<BAAS_API_KEY, client, main, pc, tool, args, response, frame, result>>
        ELSE Finish(p, "send_sms", resp, send_sms_end(args[p], resp))

SendSmsResume(p) ==
    \E resp \in SendResponses : Finish(p, "send_sms", resp, send_sms_end(args[p], resp))

SendMms(p) == \E a \in MmsArgs : Start(p, "send_mms", a, send_mms_begin(a))

SendMmsResume(p) ==
    \E resp \in SendResponses : Finish(p, "send_mms", resp, send_mms_end(args[p], resp))

GetMessageStatus(p) ==
    \E a \in StatusArgs : Start(p, "get_message_status", a, get_message_status_begin(a))

GetMessageStatusResume(p) ==
    \E resp \in StatusResponses :
        Finish(p, "get_message_status", resp, get_message_status_end(args[p], resp))

\* the stub replaced by a call of the history endpoint
GetSendHistory_calls(p) ==
    \E a \in HistoryArgs :
        Start(p, "get_send_history", a,
              IF NoProjectId(a.project_id) THEN Return(MissingProjectId)
              ELSE Await([method |-> "GET", url |-> API_BASE_URL \o "/message/send_history",
                          headers |-> Headers]))

GetSendHistory(p) ==
    \E a \in HistoryArgs : Start(p, "get_send_history", a, Return(get_send_history(a)))

\* the runtime delivers the result to the caller and the slot is free again
GetCodeTemplateUrl(p) ==
    \E a \in TemplateUrlArgs :
        Start(p, "get_code_template_url", a, Return(get_code_template_url(a)))

GenerateDirectApiCode(p) ==
    \E a \in GenerateArgs :
        Start(p, "generate_direct_api_code", a, generate_direct_api_code_begin(a))

GenerateDirectApiCodeResume(p) ==
    \E resp \in TemplateResponses :
        Finish(p, "generate_direct_api_code", resp,
               generate_direct_api_code_end(args[p], resp))

CreateMessageServiceTemplate(p) ==
    \E a \in CreateArgs :
        Start(p, "create_message_service_template", a,
              create_message_service_template_begin(a))

\* the answer to the template request: the handler returns the failure of
\* the base generator, or keeps the customized code and requests the helpers
TemplateFetched(p, answers) ==
    /\ pc[p] = "awaiting"
    /\ tool[p] = "create_message_service_template"
    /\ "code" \notin DOMAIN frame[p]
    /\ \E resp \in answers :
           LET o == create_message_service_template_base(args[p], resp) IN
           /\ response' = [response EXCEPT ![p] = resp]
           /\ IF o.kind = "return"
              THEN /\ pc' = [pc EXCEPT ![p] = "done"]
                   /\ result' = [result EXCEPT ![p] = o.result]
                   /\ UNCHANGED <<net, frame>>
              ELSE /\ net' = [net EXCEPT ![p] = Append(@, o.request)]
                   /\ frame' = [frame EXCEPT ![p] = [code |-> CustomizedCode(args[p], resp)]]
                   /\ UNCHANGED <<pc, result>>
    /\ UNCHANGED <<BAAS_API_KEY, client, main, tool, args>>

CreateMessageServiceTemplateBase(p) == TemplateFetched(p, BaseTemplateResponses)

CreateMessageServiceTemplateResume(p) ==
    /\ "code" \in DOMAIN frame[p]
    /\ \E resp \in HelperResponses :
           Finish(p, "create_message_service_template", resp,
                  create_message_service_template_end(args[p], frame[p].code, resp))

GetIntegrationGuide(p) ==
    \E a \in GuideArgs :
        Start(p, "get_integration_guide", a, get_integration_guide_begin(a))

GetIntegrationGuideResume(p) ==
    \E resp \in GuideResponses :
        Finish(p, "get_integration_guide", resp, get_integration_guide_end(args[p], resp))

Deliver(p) ==
    /\ pc[p] = "done"
    /\ pc' = [pc EXCEPT ![p] = "idle"]
    /\ tool' = [tool EXCEPT ![p] = "none"]
    /\ args' = [args EXCEPT ![p] = Nothing]
    /\ net' = [net EXCEPT ![p] = <<>>]
    /\ response' = [response EXCEPT ![p] = Nothing]
    /\ frame' = [frame EXCEPT ![p] = Nothing]
    /\ result' = [result EXCEPT ![p] = Nothing]
    /\ UNCHANGED <<BAAS_API_KEY, client, main>>

\* client = httpx.AsyncClient(timeout=30.0): open, aclose() not yet called
AsyncClient == [is_closed |-> FALSE, aclose_calls |-> 0]

\* os.getenv("BAAS_API_KEY", "")
ApiKeys == {"", "key-1"}

\* the message loop is running; the invocations run one after another, in
\* slot 1; the other slot is off
Init ==
    /\ BAAS_API_KEY \in ApiKeys
    /\ client = AsyncClient
    /\ main = "run"
    /\ pc = [p \in Procs |-> IF p = 1 THEN "idle" ELSE "off"]
    /\ tool = [p \in Procs |-> "none"]
    /\ args = [p \in Procs |-> Nothing]
    /\ net = [p \in Procs |-> <<>>]
    /\ response = [p \in Procs |-> Nothing]
    /\ frame = [p \in Procs |-> Nothing]
    /\ result = [p \in Procs |-> Nothing]

Next ==
    \E p \in Procs :
        \/ SendSms(p)
        \/ SendSmsResume(p)
        \/ SendMms(p)
        \/ SendMmsResume(p)
        \/ GetMessageStatus(p)
        \/ GetMessageStatusResume(p)
        \/ GetSendHistory(p)
        \/ GetCodeTemplateUrl(p)
        \/ GenerateDirectApiCode(p)
        \/ GenerateDirectApiCodeResume(p)
        \/ CreateMessageServiceTemplate(p)
        \/ CreateMessageServiceTemplateBase(p)
        \/ CreateMessageServiceTemplateResume(p)
        \/ GetIntegrationGuide(p)
        \/ GetIntegrationGuideResume(p)
        \/ Deliver(p)

Spec == Init /\ [][Next]_vars

----------------------------------------------------------------------------
(* Concurrent dispatch: the runtime runs a handler in every slot, and the *)
(* handlers interleave at their awaits.  One or two invocations of each   *)
(* tool and a few answers to each are tried.                              *)

\* the runtime calls the handler of a tool
Invoke(p) ==
    \/ \E a \in {[recipients |-> RecipientList(1), message |-> Str(1),
                  callback_number |-> "02-1234-5678", project_id |-> pid] :
                     pid \in ProjectIds} :
           Start(p, "send_sms", a, send_sms_begin(a))
    \/ \E a \in {[recipients |-> RecipientList(1), message |-> Str(1), subject |-> Str(1),
                  callback_number |-> "02-1234-5678", project_id |-> "proj-1",
                  image_urls |-> None]} :
           Start(p, "send_mms", a, send_mms_begin(a))
    \/ \E a \in {[group_id |-> 1]} :
           Start(p, "get_message_status", a, get_message_status_begin(a))
    \/ \E a \in {[project_id |-> "proj-1", offset |-> 0, limit |-> 20,
                  message_type |-> "ALL"]} :
           Start(p, "get_send_history", a, Return(get_send_history(a)))
    \/ \E a \in {[language |-> Python, framework |-> None, deployment_platform |-> None]} :
           Start(p, "get_code_template_url", a, Return(get_code_template_url(a)))
    \/ \E a \in {[language |-> Python, framework |-> None, include_examples |-> TRUE]} :
           Start(p, "generate_direct_api_code", a, generate_direct_api_code_begin(a))
    \/ \E a \in {[project_config |-> [project_id |-> <<"proj-9">>], language |-> Python,
                  features |-> None]} :
           Start(p, "create_message_service_template", a,
                 create_message_service_template_begin(a))
    \/ \E a \in {[platform |-> <<"vercel">>, deployment_type |-> <<"production">>]} :
           Start(p, "get_integration_guide", a, get_integration_guide_begin(a))

\* the awaited call of a handler ends, and the handler runs on
Answer(p) ==
    LET SendAnswers ==
            {Raised("ReadTimeout"), Http(404, NotJson),
             Http(HTTP_OK, Json(JObj([success |-> JBool(TRUE),
                                      data |-> JObj([group_id |-> JInt(1)])]))),
             Http(HTTP_OK, Json(JObj([success |-> JBool(FALSE)])))}
        StatusAnswers ==
            {Raised("ConnectError"), Http(500, NotJson),
             Http(HTTP_OK,
                  Json(JObj([success |-> JBool(TRUE),
                             data |-> JArr(<<DeliveryRecord(JStr(RESULT_SUCCESS))>>)])))}
        TemplateAnswers ==
            {Raised("ConnectError"), Http(404, NotFound),
             Http(HTTP_OK, Text(FencedBlock(Python)))}
        HelperAnswers == {Raised("ConnectError"), Http(HTTP_OK, Text(<<"{{project_id}}">>))}
        GuideAnswers ==
            {Raised("ConnectError"), Http(404, NotFound),
             Http(HTTP_OK, Text(<<"# deployment guide">>))}
    IN \/ \E resp \in SendAnswers :
              Finish(p, "send_sms", resp, send_sms_end(args[p], resp))
       \/ \E resp \in SendAnswers :
              Finish(p, "send_mms", resp, send_mms_end(args[p], resp))
       \/ \E resp \in StatusAnswers :
              Finish(p, "get_message_status", resp,
                     get_message_status_end(args[p], resp))
       \/ \E resp \in TemplateAnswers :
              Finish(p, "generate_direct_api_code", resp,
                     generate_direct_api_code_end(args[p], resp))
       \/ TemplateFetched(p, TemplateAnswers)
       \/ /\ "code" \in DOMAIN frame[p]
          /\ \E resp \in HelperAnswers :
                 Finish(p, "create_message_service_template", resp,
                        create_message_service_template_end(args[p], frame[p].code, resp))
       \/ \E resp \in GuideAnswers :
              Finish(p, "get_integration_guide", resp,
                     get_integration_guide_end(args[p], resp))

\* the message loop is running and every slot of the runtime is free
InitConc ==
    /\ BAAS_API_KEY \in ApiKeys
    /\ client = AsyncClient
    /\ main = "run"
    /\ pc = [p \in Procs |-> "idle"]
    /\ tool = [p \in Procs |-> "none"]
    /\ args = [p \in Procs |-> Nothing]
    /\ net = [p \in Procs |-> <<>>]
    /\ response = [p \in Procs |-> Nothing]
    /\ frame = [p \in Procs |-> Nothing]
    /\ result = [p \in Procs |-> Nothing]

NextConc == \E p \in Procs : Invoke(p) \/ Answer(p) \/ Deliver(p)

SpecConc == InitConc /\ [][NextConc]_vars

----------------------------------------------------------------------------
(* The process: the module is imported, main() runs the message loop, and *)
(* the runtime calls the handlers while the loop runs.                    *)

\* the module is imported and main() is called; no handler runs yet
InitMain ==
    /\ BAAS_API_KEY \in ApiKeys
    /\ client = AsyncClient
    /\ main = "start"
    /\ pc = [p \in Procs |-> "off"]
    /\ tool = [p \in Procs |-> "none"]
    /\ args = [p \in Procs |-> Nothing]
    /\ net = [p \in Procs |-> <<>>]
    /\ response = [p \in Procs |-> Nothing]
    /\ frame = [p \in Procs |-> Nothing]
    /\ result = [p \in Procs |-> Nothing]

\* main() prints its banner and enters mcp.run(transport="stdio")
MainRun ==
    /\ main = "start"
    /\ main' = "run"
    /\ pc' = [p \in Procs |-> "idle"]
    /\ UNCHANGED <<BAAS_API_KEY, client, tool, args, net, response, frame, result>>

\* mcp.run leaves the try block, to := "finally" by its return and
\* "finally_raise" by an exception; its event loop has ended, and with it
\* every handler that was running
MainLeave(to) ==
    /\ main = "run"
    /\ main' = to
    /\ pc' = [p \in Procs |-> "off"]
    /\ tool' = [p \in Procs |-> "none"]
    /\ args' = [p \in Procs |-> Nothing]
    /\ net' = [p \in Procs |-> <<>>]
    /\ response' = [p \in Procs |-> Nothing]
    /\ frame' = [p \in Procs |-> Nothing]
    /\ result' = [p \in Procs |-> Nothing]
    /\ UNCHANGED <<BAAS_API_KEY, client>>

\* mcp.run returns
MainReturn == MainLeave("finally")

\* the exception that passes the finally clause by
MainRaise_noFinally == MainLeave("raised")

\* mcp.run raises
MainRaise == MainLeave("finally_raise")

\* finally: asyncio.run(cleanup()), which awaits client.aclose().  aclose
\* marks the client closed and then releases its connections, which may
\* raise; main() ends by a return, or by the exception of the loop or of
\* aclose
Cleanup ==
    /\ main \in {"finally", "finally_raise"}
    /\ client' = [is_closed |-> TRUE, aclose_calls |-> client.aclose_calls + 1]
    /\ \E raises \in BOOLEAN :
           main' = IF raises \/ main = "finally_raise" THEN "raised" ELSE "returned"
    /\ UNCHANGED <<BAAS_API_KEY, pc, tool, args, net, response, frame, result>>

NextMain ==
    \/ MainRun
    \/ main = "run" /\ NextConc
    \/ MainReturn
    \/ MainRaise
    \/ Cleanup

SpecMain == InitMain /\ [][NextMain]_vars

----------------------------------------------------------------------------
(* Properties *)

\* slot p has started tool t and has not yet delivered its result
Started(p, t) == pc[p] \in {"awaiting", "done"} /\ tool[p] = t
\* slot p has run tool t to its return
Returned(p, t) == pc[p] = "done" /\ tool[p] = t
\* r is a failure result with error code c
HasCode(r, c) ==
    /\ "error_code" \in DOMAIN r
    /\ r.success = FALSE
    /\ r.error_code.t = "str"
    /\ r.error_code.v = c
\* resp is an HTTP 200 answer whose body is a JSON object with a true success flag
SuccessAnswer(resp) ==
    /\ resp.kind = "http"
    /\ resp.status_code = 200
    /\ resp.body.json
    /\ resp.body.val.t = "dict"
    /\ "success" \in DOMAIN resp.body.val.v
    /\ Truthy(resp.body.val.v["success"])
\* resp carries data.group_id
CarriesGroupId(resp) ==
    /\ "data" \in DOMAIN resp.body.val.v
    /\ resp.body.val.v["data"].t = "dict"
    /\ "group_id" \in DOMAIN resp.body.val.v["data"].v
\* the arguments pass every check of send_sms
SmsValid(a) ==
    /\ a.project_id # ""
    /\ Len(a.recipients) >= 1 /\ Len(a.recipients) <= 1000
    /\ Len(a.message) <= 2000
\* exactly one request was issued: a POST to path with channel discriminator ch
OnePost(p, path, ch) ==
    /\ Len(net[p]) = 1
    /\ net[p][1].method = "POST"
    /\ net[p][1].url = "https://api.aiapp.link" \o path
    /\ net[p][1].json.channel_id = ch
\* r is the success result of a send for the answer resp and n recipients
SendSucceeded(r, resp, n) ==
    /\ "group_id" \in DOMAIN r
    /\ r.success = TRUE
    /\ r.group_id = resp.body.val.v["data"].v["group_id"]
    /\ r.sent_count = n
    /\ r.failed_count = 0

\* C1 as stated: a valid send_sms issues exactly one POST to /message/sms with
\* channel discriminator 1, and whenever the remote answers HTTP 200 with a
\* success flag the result is success:true with the remote's data.group_id,
\* sent_count = number of recipients and failed_count = 0.
C1_AsStated ==
    \A p \in Procs :
        (Started(p, "send_sms") /\ SmsValid(args[p])) =>
            /\ OnePost(p, "/message/sms", 1)
            /\ (pc[p] = "done" /\ SuccessAnswer(response[p])) =>
                   /\ CarriesGroupId(response[p])
                   /\ SendSucceeded(result[p], response[p], Len(args[p].recipients))

\* C1 (amended): a valid send_sms issues exactly one POST to /message/sms with
\* channel discriminator 1, and whenever the remote answers HTTP 200 with a
\* success flag and a data.group_id the result is success:true with that
\* group_id, sent_count = number of recipients and failed_count = 0.
C1_SendSmsOnePost ==
    \A p \in Procs :
        (Started(p, "send_sms") /\ SmsValid(args[p])) =>
            /\ OnePost(p, "/message/sms", 1)
            /\ (pc[p] = "done" /\ SuccessAnswer(response[p])
                    /\ CarriesGroupId(response[p])) =>
                   SendSucceeded(result[p], response[p], Len(args[p].recipients))

\* a send_sms to 1000 recipients returned success
C1_Witness ==
    \E p \in Procs :
        /\ Returned(p, "send_sms")
        /\ Len(args[p].recipients) = 1000
        /\ Len(net[p]) = 1
        /\ SuccessAnswer(response[p])
        /\ result[p].success = TRUE
        /\ result[p].sent_count = 1000

\* the recipient count of a send is outside 1..1000
CountOutOfRange(a) == Len(a.recipients) = 0 \/ Len(a.recipients) > 1000
\* slot p returned error code c without having issued any request
RejectedWith(p, c) == pc[p] = "done" /\ net[p] = <<>> /\ HasCode(result[p], c)

\* C2 as stated: send_sms with 0 or more than 1000 recipients issues no
\* request and returns INVALID_RECIPIENTS_COUNT; 1 and 1000 are accepted.
C2_AsStated ==
    \A p \in Procs :
        Started(p, "send_sms") =>
            /\ CountOutOfRange(args[p]) => RejectedWith(p, "INVALID_RECIPIENTS_COUNT")
            /\ Len(args[p].recipients) \in {1, 1000} =>
                   /\ ~HasCode(result[p], "INVALID_RECIPIENTS_COUNT")
                   /\ SmsValid(args[p]) => Len(net[p]) = 1

\* C2 (amended): send_sms with 0 or more than 1000 recipients issues no
\* request, and returns INVALID_RECIPIENTS_COUNT when its project_id is not
\* empty; 1 and 1000 recipients are accepted.
C2_RecipientsCount ==
    \A p \in Procs :
        Started(p, "send_sms") =>
            /\ CountOutOfRange(args[p]) =>
                   /\ pc[p] = "done" /\ net[p] = <<>>
                   /\ args[p].project_id # "" =>
                          HasCode(result[p], "INVALID_RECIPIENTS_COUNT")
            /\ Len(args[p].recipients) \in {1, 1000} =>
                   /\ ~HasCode(result[p], "INVALID_RECIPIENTS_COUNT")
                   /\ SmsValid(args[p]) => Len(net[p]) = 1

\* a send_sms to 1001 recipients was rejected for its recipient count
C2_Witness ==
    \E p \in Procs :
        /\ Returned(p, "send_sms")
        /\ Len(args[p].recipients) = 1001
        /\ RejectedWith(p, "INVALID_RECIPIENTS_COUNT")

\* the delivery records of an answer to a status query, when its data is a
\* list of JSON objects
ListsRecords(resp) ==
    /\ SuccessAnswer(resp)
    /\ "data" \in DOMAIN resp.body.val.v
    /\ resp.body.val.v["data"].t = "list"
    /\ \A i \in 1..Len(resp.body.val.v["data"].v) :
           resp.body.val.v["data"].v[i].t = "dict"
Records(resp) == resp.body.val.v["data"].v
\* the record carries exactly the label l
Labelled(rec, l) ==
    /\ "result" \in DOMAIN rec.v
    /\ rec.v["result"].t = "str"
    /\ rec.v["result"].v = l
\* the records carry the labels ls, in that order
LabelsAre(resp, ls) ==
    /\ Len(Records(resp)) = Len(ls)
    /\ \A i \in 1..Len(ls) : Labelled(Records(resp)[i], ls[i])

\* C3: the overall status follows the priority order pending > 0, then
\* failed = 0, then success = 0, then partial success; so the records
\* [success, failed] give partial success, [success, success] success,
\* [failed, failed] failure and [success, pending] in progress.
C3_StatusPriority ==
    \A p \in Procs :
        (Returned(p, "get_message_status") /\ "status" \in DOMAIN result[p]) =>
            LET r == result[p] IN
            /\ r.pending_count > 0 => r.status = STATUS_SENDING
            /\ (r.pending_count <= 0 /\ r.failed_count = 0) => r.status = RESULT_SUCCESS
            /\ (r.pending_count <= 0 /\ r.failed_count # 0 /\ r.success_count = 0) =>
                   r.status = RESULT_FAILED
            /\ (r.pending_count <= 0 /\ r.failed_count # 0 /\ r.success_count # 0) =>
                   r.status = STATUS_PARTIAL
            /\ ListsRecords(response[p]) =>
                   /\ LabelsAre(response[p], <<RESULT_SUCCESS, RESULT_FAILED>>) =>
                          r.status = STATUS_PARTIAL
                   /\ LabelsAre(response[p], <<RESULT_SUCCESS, RESULT_SUCCESS>>) =>
                          r.status = RESULT_SUCCESS
                   /\ LabelsAre(response[p], <<RESULT_FAILED, RESULT_FAILED>>) =>
                          r.status = RESULT_FAILED
                   /\ LabelsAre(response[p], <<RESULT_SUCCESS, "daegi">>) =>
                          r.status = STATUS_SENDING

\* a group whose records all failed but one, which is pending, is in progress
C3_Witness ==
    \E p \in Procs :
        /\ Returned(p, "get_message_status")
        /\ ListsRecords(response[p])
        /\ LabelsAre(response[p], <<RESULT_FAILED, "daegi", RESULT_FAILED>>)
        /\ result[p].status = STATUS_SENDING
        /\ result[p].failed_count = 2

\* how many of the records satisfy Is
NumberOf(recs, Is(_)) == Cardinality({i \in 1..Len(recs) : Is(recs[i])})

\* C4: for every list of delivery records, total_count is the number of
\* records, success_count and failed_count the numbers of records labelled
\* exactly with the success and the failure literal, pending_count the rest
\* (every other label, or none); no count is negative and the three add up
\* to total_count.
C4_StatusCounts ==
    \A p \in Procs :
        (Returned(p, "get_message_status") /\ ListsRecords(response[p])) =>
            LET r == result[p]
                recs == Records(response[p])
                IsSuccess(rec) == Labelled(rec, RESULT_SUCCESS)
                IsFailed(rec) == Labelled(rec, RESULT_FAILED)
                IsOther(rec) == ~IsSuccess(rec) /\ ~IsFailed(rec)
            IN /\ "total_count" \in DOMAIN r
               /\ r.total_count = Len(recs)
               /\ r.success_count = NumberOf(recs, IsSuccess)
               /\ r.failed_count = NumberOf(recs, IsFailed)
               /\ r.pending_count = r.total_count - r.success_count - r.failed_count
               /\ r.pending_count = NumberOf(recs, IsOther)
               /\ r.total_count >= 0 /\ r.success_count >= 0
               /\ r.failed_count >= 0 /\ r.pending_count >= 0
               /\ r.success_count + r.failed_count + r.pending_count = r.total_count

\* a list with a success, a failure and a record without label was counted
C4_Witness ==
    \E p \in Procs :
        /\ Returned(p, "get_message_status")
        /\ ListsRecords(response[p])
        /\ Len(Records(response[p])) = 3
        /\ \E i \in 1..3 : "result" \notin DOMAIN Records(response[p])[i].v
        /\ result[p].success_count = 1
        /\ result[p].failed_count = 1
        /\ result[p].pending_count = 1

\* project_id, recipients and message pass the checks made before the
\* subject is looked at
PassesCommonChecks(a) ==
    /\ a.project_id # ""
    /\ Len(a.recipients) >= 1 /\ Len(a.recipients) <= 1000
    /\ Len(a.message) <= 2000
\* the image list is omitted or has at most 5 URLs
ImagesInRange(a) == ~a.image_urls.has \/ Len(a.image_urls.val) <= 5
\* the arguments pass every check of send_mms
MmsValid(a) == PassesCommonChecks(a) /\ Len(a.subject) <= 40 /\ ImagesInRange(a)

\* C5 as stated: send_mms with a subject of 41 characters issues no request
\* and returns SUBJECT_TOO_LONG; with 40 characters and the other arguments
\* valid it proceeds to the POST.
C5_AsStated ==
    \A p \in Procs :
        Started(p, "send_mms") =>
            /\ Len(args[p].subject) = 41 => RejectedWith(p, "SUBJECT_TOO_LONG")
            /\ (Len(args[p].subject) = 40 /\ MmsValid(args[p])) =>
                   OnePost(p, "/message/mms", 3)

\* C5 (amended): send_mms with a subject of 41 characters issues no request,
\* and returns SUBJECT_TOO_LONG when project_id, recipients and message pass
\* their checks; with 40 characters and the other arguments valid it proceeds
\* to the POST.
C5_SubjectLength ==
    \A p \in Procs :
        Started(p, "send_mms") =>
            /\ Len(args[p].subject) = 41 =>
                   /\ pc[p] = "done" /\ net[p] = <<>>
                   /\ PassesCommonChecks(args[p]) =>
                          HasCode(result[p], "SUBJECT_TOO_LONG")
            /\ (Len(args[p].subject) = 40 /\ MmsValid(args[p])) =>
                   OnePost(p, "/message/mms", 3)

\* a send_mms with a subject of 41 characters was rejected for its subject
C5_Witness ==
    \E p \in Procs :
        /\ Returned(p, "send_mms")
        /\ Len(args[p].subject) = 41
        /\ RejectedWith(p, "SUBJECT_TOO_LONG")

\* C6 as stated: send_mms with more than 5 image URLs returns TOO_MANY_IMAGES
\* without a request; with 0 to 5 URLs or no list the image check passes.
C6_AsStated ==
    \A p \in Procs :
        Started(p, "send_mms") =>
            /\ ~ImagesInRange(args[p]) => RejectedWith(p, "TOO_MANY_IMAGES")
            /\ ImagesInRange(args[p]) => ~HasCode(result[p], "TOO_MANY_IMAGES")

\* C6 (amended): send_mms with more than 5 image URLs issues no request, and
\* returns TOO_MANY_IMAGES when project_id, recipients, message and subject
\* pass their checks; with 0 to 5 URLs or no list the image check passes.
C6_ImageCount ==
    \A p \in Procs :
        Started(p, "send_mms") =>
            /\ ~ImagesInRange(args[p]) =>
                   /\ pc[p] = "done" /\ net[p] = <<>>
                   /\ (PassesCommonChecks(args[p]) /\ Len(args[p].subject) <= 40) =>
                          HasCode(result[p], "TOO_MANY_IMAGES")
            /\ ImagesInRange(args[p]) => ~HasCode(result[p], "TOO_MANY_IMAGES")
            /\ (ImagesInRange(args[p]) /\ MmsValid(args[p])) => Len(net[p]) = 1

\* a send_mms with 6 image URLs was rejected for its images
C6_Witness ==
    \E p \in Procs :
        /\ Returned(p, "send_mms")
        /\ args[p].image_urls.has
        /\ Len(args[p].image_urls.val) = 6
        /\ RejectedWith(p, "TOO_MANY_IMAGES")

\* the image URL list the payload must carry
SuppliedImages(a) == IF a.image_urls.has THEN a.image_urls.val ELSE <<>>

\* C7 as stated: a send_mms that passes validation issues exactly one POST to
\* /message/mms with channel discriminator 3 and the supplied image list
\* (empty when none was supplied); on HTTP 200 with a success flag it returns
\* success:true with the remote's data.group_id, sent_count = number of
\* recipients and failed_count = 0.
C7_AsStated ==
    \A p \in Procs :
        (Started(p, "send_mms") /\ MmsValid(args[p])) =>
            /\ OnePost(p, "/message/mms", 3)
            /\ net[p][1].json.img_url_list = SuppliedImages(args[p])
            /\ (pc[p] = "done" /\ SuccessAnswer(response[p])) =>
                   /\ CarriesGroupId(response[p])
                   /\ SendSucceeded(result[p], response[p], Len(args[p].recipients))

\* C7 (amended): as stated, but the success result is returned on HTTP 200
\* with a success flag and a data.group_id.
C7_SendMmsOnePost ==
    \A p \in Procs :
        (Started(p, "send_mms") /\ MmsValid(args[p])) =>
            /\ OnePost(p, "/message/mms", 3)
            /\ net[p][1].json.img_url_list = SuppliedImages(args[p])
            /\ (pc[p] = "done" /\ SuccessAnswer(response[p])
                    /\ CarriesGroupId(response[p])) =>
                   SendSucceeded(result[p], response[p], Len(args[p].recipients))

\* a send_mms with 5 images returned success
C7_Witness ==
    \E p \in Procs :
        /\ Returned(p, "send_mms")
        /\ args[p].image_urls.has
        /\ Len(args[p].image_urls.val) = 5
        /\ Len(net[p]) = 1
        /\ Len(net[p][1].json.img_url_list) = 5
        /\ SuccessAnswer(response[p])
        /\ result[p].success = TRUE

\* C8 as stated: get_send_history always returns an empty history list and
\* performs no network call, whatever its inputs.
C8_AsStated ==
    \A p \in Procs :
        Started(p, "get_send_history") =>
            /\ pc[p] = "done" /\ net[p] = <<>>
            /\ "data" \in DOMAIN result[p]
            /\ result[p].data.history = <<>>

\* C8 (amended): get_send_history performs no network call, whatever its
\* inputs, and returns an empty history list whenever project_id is not empty.
C8_HistoryStub ==
    \A p \in Procs :
        Started(p, "get_send_history") =>
            /\ pc[p] = "done" /\ net[p] = <<>>
            /\ args[p].project_id # "" =>
                   /\ "data" \in DOMAIN result[p]
                   /\ result[p].success = TRUE
                   /\ result[p].data.history = <<>>
                   /\ result[p].data.total_count = 0

\* a get_send_history with limit 500 returned an empty history
C8_Witness ==
    \E p \in Procs :
        /\ Returned(p, "get_send_history")
        /\ args[p].limit = 500
        /\ args[p].message_type = "SMS"
        /\ net[p] = <<>>
        /\ result[p].success = TRUE
        /\ result[p].data.history = <<>>

\* C9: for a non-empty project_id the echoed limit is at most 100 (500 becomes
\* 100), the echoed offset at least 0, a message_type other than SMS, MMS,
\* ALL becomes ALL, and values inside the bounds are echoed unchanged.
C9_HistoryEcho ==
    \A p \in Procs :
        (Returned(p, "get_send_history") /\ args[p].project_id # "") =>
            LET a == args[p]
                d == result[p].data
            IN /\ d.project_id = a.project_id
               /\ d.limit <= 100
               /\ a.limit > 100 => d.limit = 100
               /\ a.limit = 500 => d.limit = 100
               /\ a.limit <= 100 => d.limit = a.limit
               /\ d.offset >= 0
               /\ a.offset < 0 => d.offset = 0
               /\ a.offset >= 0 => d.offset = a.offset
               /\ a.message_type \in {"SMS", "MMS", "ALL"} =>
                      d.message_type = a.message_type
               /\ a.message_type \notin {"SMS", "MMS", "ALL"} => d.message_type = "ALL"

\* limit 500, offset -1 and message type LMS were echoed as 100, 0 and ALL
C9_Witness ==
    \E p \in Procs :
        /\ Returned(p, "get_send_history")
        /\ args[p].project_id # ""
        /\ args[p].limit = 500 /\ args[p].offset = -1 /\ args[p].message_type = "LMS"
        /\ result[p].data.limit = 100
        /\ result[p].data.offset = 0
        /\ result[p].data.message_type = "ALL"

\* C10: send_sms, send_mms and get_send_history with an empty project_id
\* return MISSING_PROJECT_ID and issue no network call.
C10_MissingProjectId ==
    \A p \in Procs :
        \A t \in {"send_sms", "send_mms", "get_send_history"} :
            (Started(p, t) /\ args[p].project_id = "") =>
                RejectedWith(p, "MISSING_PROJECT_ID")

\* a send_mms with an empty project_id and no recipient returned
\* MISSING_PROJECT_ID
C10_Witness ==
    \E p \in Procs :
        /\ Returned(p, "send_mms")
        /\ args[p].project_id = ""
        /\ Len(args[p].recipients) = 0
        /\ RejectedWith(p, "MISSING_PROJECT_ID")

\* C11 as stated: send_sms and send_mms with a message of more than 2000
\* characters return MESSAGE_TOO_LONG and issue no request; a message of
\* exactly 2000 characters passes the length check.
C11_AsStated ==
    \A p \in Procs :
        \A t \in {"send_sms", "send_mms"} :
            Started(p, t) =>
                /\ Len(args[p].message) > 2000 => RejectedWith(p, "MESSAGE_TOO_LONG")
                /\ Len(args[p].message) = 2000 =>
                       ~HasCode(result[p], "MESSAGE_TOO_LONG")

\* C11 (amended): send_sms and send_mms with a message of more than 2000
\* characters issue no request, and return MESSAGE_TOO_LONG when project_id
\* is not empty and the recipient count is in 1..1000; a message of exactly
\* 2000 characters passes the length check.
C11_MessageLength ==
    \A p \in Procs :
        \A t \in {"send_sms", "send_mms"} :
            Started(p, t) =>
                /\ Len(args[p].message) > 2000 =>
                       /\ pc[p] = "done" /\ net[p] = <<>>
                       /\ (args[p].project_id # "" /\ ~CountOutOfRange(args[p])) =>
                              HasCode(result[p], "MESSAGE_TOO_LONG")
                /\ Len(args[p].message) = 2000 =>
                       /\ ~HasCode(result[p], "MESSAGE_TOO_LONG")
                       /\ (t = "send_sms" /\ SmsValid(args[p])) => Len(net[p]) = 1
                       /\ (t = "send_mms" /\ MmsValid(args[p])) => Len(net[p]) = 1

\* a send_mms with a message of 2001 characters was rejected for its message
C11_Witness ==
    \E p \in Procs :
        /\ Returned(p, "send_mms")
        /\ Len(args[p].message) = 2001
        /\ RejectedWith(p, "MESSAGE_TOO_LONG")

\* slot p has run tool t to its return after the remote answered its request
Answered(p, t) == Returned(p, t) /\ "kind" \in DOMAIN response[p]

\* the three tools that call the remote API
ApiTools == {"send_sms", "send_mms", "get_message_status"}

\* resp is an HTTP 200 answer whose body is a JSON object that reports no success
FailureAnswer(resp) ==
    /\ resp.kind = "http"
    /\ resp.status_code = 200
    /\ resp.body.json
    /\ resp.body.val.t = "dict"
    /\ ("success" \in DOMAIN resp.body.val.v => ~Truthy(resp.body.val.v["success"]))

\* C12: on HTTP 200 with an application-level failure send_sms, send_mms and
\* get_message_status return success:false with the remote message and
\* error_code verbatim; without a remote error_code the code is UNKNOWN_ERROR.
C12_RemoteFailure ==
    \A p \in Procs :
        \A t \in ApiTools :
            (Answered(p, t) /\ FailureAnswer(response[p])) =>
                LET resp_body == response[p].body.val.v
                    r == result[p]
                IN /\ "error_code" \in DOMAIN r
                   /\ r.success = FALSE
                   /\ "message" \in DOMAIN resp_body => r.error = resp_body["message"]
                   /\ "error_code" \in DOMAIN resp_body =>
                          r.error_code = resp_body["error_code"]
                   /\ "error_code" \notin DOMAIN resp_body => HasCode(r, "UNKNOWN_ERROR")

\* a send_sms returned the message and the code of a remote failure
C12_Witness ==
    \E p \in Procs :
        /\ Answered(p, "send_sms")
        /\ FailureAnswer(response[p])
        /\ "error_code" \in DOMAIN response[p].body.val.v
        /\ "message" \in DOMAIN response[p].body.val.v
        /\ HasCode(result[p], "REMOTE_CODE")
        /\ result[p].error = JStr("remote message")

\* C13: on any HTTP status other than 200 send_sms, send_mms and
\* get_message_status return success:false with API_ERROR and an error text
\* that includes the status code, whatever the body is.
C13_ApiError ==
    \A p \in Procs :
        \A t \in ApiTools :
            (Answered(p, t) /\ response[p].kind = "http"
                /\ response[p].status_code # 200) =>
                /\ HasCode(result[p], "API_ERROR")
                /\ result[p].error.t = "str"
                /\ result[p].error.v =
                       "API call failed (status code: "
                           \o ToString(response[p].status_code) \o ")"

\* a get_message_status answered with status 404 and a body that is no JSON
\* returned API_ERROR
C13_Witness ==
    \E p \in Procs :
        /\ Answered(p, "get_message_status")
        /\ response[p].kind = "http"
        /\ response[p].status_code = 404
        /\ ~response[p].body.json
        /\ HasCode(result[p], "API_ERROR")

\* the tools of the messaging API
MessagingTools == ApiTools \cup {"get_send_history"}

\* C15: an invocation of send_sms, send_mms, get_message_status or
\* get_send_history hands at most one request to the client, whatever the
\* answer to it was (non-200, remote failure, transport exception, timeout),
\* and get_send_history hands it none.
C15_AtMostOneCall ==
    \A p \in Procs :
        \A t \in MessagingTools :
            Started(p, t) =>
                /\ Len(net[p]) <= 1
                /\ pc[p] = "awaiting" => Len(net[p]) = 1
                /\ t = "get_send_history" => net[p] = <<>>

\* a send_sms whose only request timed out has returned
C15_Witness ==
    \E p \in Procs :
        /\ Answered(p, "send_sms")
        /\ response[p] = Raised("ReadTimeout")
        /\ Len(net[p]) = 1
        /\ HasCode(result[p], "INTERNAL_ERROR")

\* C19: get_message_status issues exactly one GET to the status endpoint of
\* the group_id it was given, whatever the group_id is, and a status result
\* carries that group_id unchanged.
C19_StatusLookup ==
    \A p \in Procs :
        Started(p, "get_message_status") =>
            /\ Len(net[p]) = 1
            /\ net[p][1].method = "GET"
            /\ net[p][1].url =
                   "https://api.aiapp.link/message/send_history/sms/"
                       \o ToString(args[p].group_id) \o "/messages"
            /\ (pc[p] = "done" /\ "status" \in DOMAIN result[p]) =>
                   result[p].group_id = args[p].group_id

\* a status lookup of group 2 returned the status of group 2
C19_Witness ==
    \E p \in Procs :
        /\ Answered(p, "get_message_status")
        /\ args[p].group_id = 2
        /\ "status" \in DOMAIN result[p]
        /\ result[p].group_id = 2
        /\ net[p][1].url = "https://api.aiapp.link/message/send_history/sms/2/messages"

\* the eight tools
AllTools ==
    MessagingTools
        \cup {"get_code_template_url", "generate_direct_api_code",
              "create_message_service_template", "get_integration_guide"}

\* r is a result mapping: neither an exception nor the value of an idle slot
IsMapping(r) == "exc" \notin DOMAIN r /\ "none" \notin DOMAIN r

\* C14: whatever the remote API or the CDN answered (a transport exception,
\* a timeout, a body that is no JSON), every tool that has ended has
\* returned a result mapping and no exception; a transport exception in
\* send_sms, send_mms or get_message_status gives INTERNAL_ERROR.
C14_NoException ==
    \A p \in Procs :
        pc[p] = "done" =>
            /\ tool[p] \in AllTools
            /\ IsMapping(result[p])
            /\ (tool[p] \in ApiTools /\ Answered(p, tool[p])
                    /\ response[p].kind = "raise") =>
                   HasCode(result[p], "INTERNAL_ERROR")

\* a send_mms whose request met a connection error returned INTERNAL_ERROR
C14_Witness ==
    \E p \in Procs :
        /\ Answered(p, "send_mms")
        /\ response[p] = Raised("ConnectError")
        /\ IsMapping(result[p])
        /\ HasCode(result[p], "INTERNAL_ERROR")

\* C18: every result a tool returned is a success result (success:true, or
\* the status data of get_message_status) or a failure result that has
\* success:false, an error and an error_code.
C18_SuccessIndicator ==
    \A p \in Procs :
        pc[p] = "done" =>
            LET r == result[p]
            IN /\ IsMapping(r)
               /\ IF "success" \in DOMAIN r
                  THEN \/ r.success = TRUE
                       \/ /\ r.success = FALSE
                          /\ "error" \in DOMAIN r
                          /\ "error_code" \in DOMAIN r
                  ELSE /\ tool[p] = "get_message_status"
                       /\ {"group_id", "status", "messages"} \subseteq DOMAIN r

\* create_message_service_template returned the failure of the base
\* generator, which has an error and an error_code
C18_Witness ==
    \E p \in Procs :
        /\ Answered(p, "create_message_service_template")
        /\ HasCode(result[p], "TEMPLATE_UNAVAILABLE")
        /\ "error" \in DOMAIN result[p]

\* the fetch of the CDN template failed: an exception, or a status other than 200
FetchFailed(resp) == resp.kind = "raise" \/ resp.status_code # 200

\* the CDN answered 200 with a text that has no fenced block for the language
NoMatchingBlock(resp, language) ==
    /\ resp.kind = "http"
    /\ resp.status_code = 200
    /\ BlockStarts(resp.body.text, language) = {}

\* C20 as stated: when the fetch of generate_direct_api_code fails, or the
\* CDN text holds no fenced block of the language, the code returned for a
\* language that has a generator is the local source.
C20_AsStated ==
    \A p \in Procs :
        Answered(p, "generate_direct_api_code") =>
            LET language == Lower(args[p].language)
                local == LocalCode(language, LowerOrNone(args[p].framework),
                                   args[p].include_examples)
            IN (local.has /\ (FetchFailed(response[p])
                                \/ NoMatchingBlock(response[p], language))) =>
                   /\ result[p].success = TRUE
                   /\ result[p].code = local.val

\* C20 (amended): when the fetch of generate_direct_api_code fails, the code
\* returned for javascript, js, python, py or php is the local source; when
\* the CDN answers 200 with a text that holds no fenced block of the
\* language, the code returned is that whole text, with source "CDN template".
C20_Fallback ==
    \A p \in Procs :
        Answered(p, "generate_direct_api_code") =>
            LET language == Lower(args[p].language)
                local == LocalCode(language, LowerOrNone(args[p].framework),
                                   args[p].include_examples)
            IN /\ (local.has /\ FetchFailed(response[p])) =>
                      /\ result[p].success = TRUE
                      /\ result[p].code = local.val
                      /\ result[p].source = "Local generation"
               /\ NoMatchingBlock(response[p], language) =>
                      /\ result[p].success = TRUE
                      /\ result[p].code = response[p].body.text
                      /\ result[p].source = "CDN template"

\* for python the CDN answered 200 with a text that has a bash block only,
\* and the code returned is that text and not the local source
C20_Witness ==
    \E p \in Procs :
        /\ Answered(p, "generate_direct_api_code")
        /\ args[p].language = Python
        /\ response[p] = Http(200, Text(FencedBlock(<<"bash">>)))
        /\ result[p].code = FencedBlock(<<"bash">>)
        /\ result[p].code # generate_python_code(None, args[p].include_examples)

\* everything the model holds of the invocation in slot q
Slot(q) == <<pc[q], tool[q], args[q], net[q], response[q], frame[q], result[q]>>

\* what the handler of slot p returns, from the arguments, the answers and
\* the locals of slot p alone
Outcome(p) ==
    LET t == tool[p]
        a == args[p]
        resp == response[p]
    IN CASE t = "send_sms" ->
                IF net[p] = <<>> THEN send_sms_begin(a).result ELSE send_sms_end(a, resp)
         [] t = "send_mms" ->
                IF net[p] = <<>> THEN send_mms_begin(a).result ELSE send_mms_end(a, resp)
         [] t = "get_message_status" -> get_message_status_end(a, resp)
         [] t = "get_send_history" -> get_send_history(a)
         [] t = "get_code_template_url" -> get_code_template_url(a)
         [] t = "generate_direct_api_code" -> generate_direct_api_code_end(a, resp)
         [] t = "create_message_service_template" ->
                IF "code" \in DOMAIN frame[p]
                THEN create_message_service_template_end(a, frame[p].code, resp)
                ELSE create_message_service_template_base(a, resp).result
         [] t = "get_integration_guide" -> get_integration_guide_end(a, resp)

\* C16: under every interleaving of concurrent invocations a step of one
\* invocation changes neither the API key nor anything of another
\* invocation, and the result an invocation returns is determined by its own
\* arguments and the answers to its own requests.
C16_Independent ==
    [][\A p \in Procs :
           Slot(p)' # Slot(p) =>
               /\ BAAS_API_KEY' = BAAS_API_KEY
               /\ \A q \in Procs \ {p} : Slot(q)' = Slot(q)
               /\ (pc[p] # "done" /\ pc'[p] = "done") => result'[p] = Outcome(p)']_vars

\* a send_sms has returned its success while a generate_direct_api_code in
\* the other slot has returned after a connection error
C16_Witness ==
    \E p \in Procs, q \in Procs :
        /\ p # q
        /\ Answered(p, "send_sms")
        /\ result[p].success = TRUE
        /\ Answered(q, "generate_direct_api_code")
        /\ response[q] = Raised("ConnectError")
        /\ result[q].source = "Local generation"

\* the sum of f over the set S
RECURSIVE Sum(_, _)
Sum(f, S) ==
    IF S = {} THEN 0
    ELSE LET x == CHOOSE y \in S : TRUE IN f[x] + Sum(f, S \ {x})

\* the number of POST requests the running invocations handed to the client
NumPosts ==
    Sum([p \in Procs |-> Cardinality({i \in 1..Len(net[p]) : net[p][i].method = "POST"})],
        Procs)

\* the running send invocations whose arguments pass every check
ValidSends ==
    {p \in Procs :
        \/ Started(p, "send_sms") /\ SmsValid(args[p])
        \/ Started(p, "send_mms") /\ MmsValid(args[p])}

\* C17: whichever invocations run concurrently or one after the other, the
\* number of POST requests equals the number of send_sms / send_mms
\* invocations that pass validation, each of which has issued its own POST.
C17_NoDedup ==
    /\ NumPosts = Cardinality(ValidSends)
    /\ \A p \in ValidSends : Len(net[p]) = 1 /\ net[p][1].method = "POST"

\* two send_sms with identical arguments are in flight, each with its own POST
C17_Witness ==
    /\ \A p \in Procs : pc[p] = "awaiting" /\ tool[p] = "send_sms"
    /\ args[1] = args[2]
    /\ net[1] = net[2]
    /\ NumPosts = 2

\* atom x occurs in the text s
Contains(s, x) == \E i \in 1..Len(s) : s[i] = x

\* the three languages named as locally supported
LocalLanguages == {Javascript, Python, <<"php">>}

\* C21: when the CDN fetch of generate_direct_api_code fails (an exception
\* or a status other than 200) for language javascript, python or php
\* (compared after lower-casing), the result is success:true, its code is the
\* source of the embedded generator of that language and holds the definition
\* of class BaaSMessageService, and it carries no error.
C21_LocalFallback ==
    \A p \in Procs :
        Answered(p, "generate_direct_api_code") =>
            LET language == Lower(args[p].language)
                framework == LowerOrNone(args[p].framework)
                examples == args[p].include_examples
            IN (language \in LocalLanguages /\ FetchFailed(response[p])) =>
                   /\ result[p].success = TRUE
                   /\ {"error", "error_code"} \cap DOMAIN result[p] = {}
                   /\ Contains(result[p].code, "class BaaSMessageService")
                   /\ result[p].source = "Local generation"
                   /\ result[p].code =
                          IF language = Javascript
                          THEN generate_javascript_code(framework, examples)
                          ELSE IF language = Python
                          THEN generate_python_code(framework, examples)
                          ELSE generate_php_code(framework, examples)

\* the fetch for PHP raised and the result is the source of the php generator
C21_Witness ==
    \E p \in Procs :
        /\ Answered(p, "generate_direct_api_code")
        /\ Lower(args[p].language) = <<"php">>
        /\ response[p].kind = "raise"
        /\ result[p].success = TRUE
        /\ Contains(result[p].code, "class BaaSMessageService")

\* C22 as stated: for a language other than javascript, python and php,
\* generate_direct_api_code returns TEMPLATE_UNAVAILABLE whenever the CDN
\* fetch fails, by a status other than 200 or by an exception.
C22_AsStated ==
    \A p \in Procs :
        Answered(p, "generate_direct_api_code") =>
            ((Lower(args[p].language) \notin LocalLanguages /\ FetchFailed(response[p]))
                => HasCode(result[p], "TEMPLATE_UNAVAILABLE"))

\* C22 (amended): for a language other than javascript, js, python, py and
\* php, generate_direct_api_code returns TEMPLATE_UNAVAILABLE with the list
\* of the languages of the generators when the CDN answers a status other
\* than 200, and GENERATION_FAILED when the fetch raises an exception.
C22_NoLocalGenerator ==
    \A p \in Procs :
        Answered(p, "generate_direct_api_code") =>
            LET language == Lower(args[p].language)
            IN (language \notin LocalLanguages \cup {<<"js">>, <<"py">>}) =>
                /\ (response[p].kind = "http" /\ response[p].status_code # 200) =>
                       /\ HasCode(result[p], "TEMPLATE_UNAVAILABLE")
                       /\ result[p].supported_languages = <<Javascript, Python, <<"php">>>>
                /\ response[p].kind = "raise" =>
                       /\ HasCode(result[p], "GENERATION_FAILED")
                       /\ "supported_languages" \notin DOMAIN result[p]

\* the fetch for java raised an exception and the result is GENERATION_FAILED
C22_Witness ==
    \E p \in Procs :
        /\ Answered(p, "generate_direct_api_code")
        /\ args[p].language = <<"java">>
        /\ response[p].kind = "raise"
        /\ HasCode(result[p], "GENERATION_FAILED")

\* C23: get_code_template_url issues no request for any input; for a language
\* that, lower-cased, is none of javascript, python, php, java, go and csharp
\* it returns success:false with UNSUPPORTED_LANGUAGE and the list of these
\* six, and for each of the six it returns success:true.
C23_SupportedLanguages ==
    \A p \in Procs :
        Returned(p, "get_code_template_url") =>
            LET six == <<Javascript, Python, <<"php">>, <<"java">>, <<"go">>, <<"csharp">>>>
                supported == \E i \in 1..6 : six[i] = Lower(args[p].language)
            IN /\ net[p] = <<>>
               /\ ~ supported =>
                      /\ HasCode(result[p], "UNSUPPORTED_LANGUAGE")
                      /\ result[p].supported_languages = six
               /\ supported => result[p].success = TRUE

\* get_code_template_url has returned UNSUPPORTED_LANGUAGE for ruby without
\* a request
C23_Witness ==
    \E p \in Procs :
        /\ Returned(p, "get_code_template_url")
        /\ args[p].language = <<"ruby">>
        /\ net[p] = <<>>
        /\ HasCode(result[p], "UNSUPPORTED_LANGUAGE")
        /\ Len(result[p].supported_languages) = 6

\* C24: for a supported language get_code_template_url returns template_url
\* <base>/<language>/<framework>.md when a (non-empty) framework is given and
\* <base>/<language>/vanilla.md when none is given, and the installation
\* guide <base>/setup/<language>.md, language and framework in lower case;
\* ("python", "fastapi") gives .../python/fastapi.md and .../setup/python.md.
C24_TemplateUrl ==
    \A p \in Procs :
        (Returned(p, "get_code_template_url") /\ result[p].success) =>
            LET base == "https://cdn.mbaas.kr/templates/sms-mms"
                language == Join(Lower(args[p].language))
                framework == args[p].framework
                given == framework.has /\ framework.val # <<>>
            IN /\ given => result[p].template_url =
                      base \o "/" \o language \o "/" \o Join(Lower(framework.val)) \o ".md"
               /\ ~ given => result[p].template_url =
                      base \o "/" \o language \o "/vanilla.md"
               /\ result[p].configuration.installation_guide =
                      base \o "/setup/" \o language \o ".md"
               /\ (args[p].language = Python /\ framework = Some(<<"fastapi">>)) =>
                      /\ result[p].template_url =
                             "https://cdn.mbaas.kr/templates/sms-mms/python/fastapi.md"
                      /\ result[p].configuration.installation_guide =
                             "https://cdn.mbaas.kr/templates/sms-mms/setup/python.md"

\* get_code_template_url("python", "fastapi") has returned its URLs
C24_Witness ==
    \E p \in Procs :
        /\ Returned(p, "get_code_template_url")
        /\ args[p].language = Python
        /\ args[p].framework = Some(<<"fastapi">>)
        /\ result[p].success
        /\ result[p].template_url = "https://cdn.mbaas.kr/templates/sms-mms/python/fastapi.md"

\* the text pat occurs in the text s
Occurs(s, pat) == \E i \in 1..Len(s) : IsAt(s, i, pat)

\* C25 as stated: whenever the base generator succeeds,
\* create_message_service_template returns success:true with the code in
\* which no default placeholder is left where another value was supplied,
\* followed by the project helpers: those of the CDN with their three
\* variables substituted when the CDN answers the helpers request with 200,
\* and the local ones when the CDN helpers are not available.
C25_AsStated ==
    \A p \in Procs :
        (Answered(p, "create_message_service_template") /\ "code" \in DOMAIN frame[p]) =>
            LET config == args[p].project_config
                project_id       == ConfigGet(config, "project_id", YourProjectId)
                default_callback == ConfigGet(config, "default_callback", DefaultCallback)
                company_name     == ConfigGet(config, "company_name", YourCompany)
                code == frame[p].code
                helpers ==
                    IF response[p].kind = "http" /\ response[p].status_code = 200
                    THEN <<"\n", "\n">> \o HelpersCode(response[p].body.text, project_id,
                                                        default_callback, company_name)
                    ELSE ProjectHelpers(project_id, default_callback, company_name)
            IN /\ result[p].success = TRUE
               /\ project_id # YourProjectId => ~ Occurs(code, YourProjectId)
               /\ default_callback # DefaultCallback => ~ Occurs(code, DefaultCallback)
               /\ company_name # YourCompany => ~ Occurs(code, YourCompany)
               /\ result[p].code = code \o helpers

\* C26: get_integration_guide returns the text of the CDN with source "CDN"
\* when the CDN answers 200; when the fetch fails (a status other than 200 or
\* an exception) it returns success:true with the local guide for platform
\* vercel, netlify or docker (lower-cased), and PLATFORM_NOT_SUPPORTED with
\* the list vercel, netlify, docker for every other platform.
C26_IntegrationGuide ==
    \A p \in Procs :
        Answered(p, "get_integration_guide") =>
            LET platform == Lower(args[p].platform)
                known == platform \in {<<"vercel">>, <<"netlify">>, <<"docker">>}
            IN /\ ~ FetchFailed(response[p]) =>
                      /\ result[p].success = TRUE
                      /\ result[p].source = "CDN"
                      /\ result[p].guide_content = response[p].body.text
               /\ (FetchFailed(response[p]) /\ known) =>
                      /\ result[p].success = TRUE
                      /\ result[p].source = "Local fallback"
                      /\ "guide" \in DOMAIN result[p]
                      /\ result[p].platform = platform
               /\ (FetchFailed(response[p]) /\ ~ known) =>
                      /\ HasCode(result[p], "PLATFORM_NOT_SUPPORTED")
                      /\ result[p].available_platforms = <<"vercel", "netlify", "docker">>

\* the fetch of the guide of docker failed with status 500 and the result is
\* the local guide
C26_Witness ==
    \E p \in Procs :
        /\ Answered(p, "get_integration_guide")
        /\ args[p].platform = <<"docker">>
        /\ response[p].kind = "http"
        /\ response[p].status_code = 500
        /\ result[p].success = TRUE
        /\ result[p].source = "Local fallback"

\* the validation rules in their order
RuleOrder ==
    <<"MISSING_PROJECT_ID", "INVALID_RECIPIENTS_COUNT", "MESSAGE_TOO_LONG",
      "SUBJECT_TOO_LONG", "TOO_MANY_IMAGES">>

\* the places in RuleOrder of the rules that arguments a of tool t violate
ViolatedRules(t, a) ==
    {i \in 1..5 :
        \/ i = 1 /\ a.project_id = ""
        \/ i = 2 /\ (Len(a.recipients) = 0 \/ Len(a.recipients) > 1000)
        \/ i = 3 /\ Len(a.message) > 2000
        \/ i = 4 /\ t = "send_mms" /\ Len(a.subject) > 40
        \/ i = 5 /\ t = "send_mms" /\ a.image_urls.has /\ Len(a.image_urls.val) > 5}

\* C28: an invocation of send_sms or send_mms that violates one or several
\* validation rules issues no request and reports one error, the one of the
\* first violated rule in the order MISSING_PROJECT_ID,
\* INVALID_RECIPIENTS_COUNT, MESSAGE_TOO_LONG, SUBJECT_TOO_LONG,
\* TOO_MANY_IMAGES (the last two for send_mms only).
C28_FirstViolatedRule ==
    \A p \in Procs : \A t \in {"send_sms", "send_mms"} :
        (Returned(p, t) /\ ViolatedRules(t, args[p]) # {}) =>
            /\ RejectedWith(p, RuleOrder[Min(ViolatedRules(t, args[p]))])
            /\ \A i \in ViolatedRules(t, args[p]) \ {Min(ViolatedRules(t, args[p]))} :
                   ~ HasCode(result[p], RuleOrder[i])

\* send_sms with an empty project_id and no recipient has reported
\* MISSING_PROJECT_ID
C28_Witness ==
    \E p \in Procs :
        /\ Returned(p, "send_sms")
        /\ args[p].project_id = ""
        /\ Len(args[p].recipients) = 0
        /\ RejectedWith(p, "MISSING_PROJECT_ID")

\* C29: send_sms and send_mms return success:true only with a group_id: the
\* remote answered HTTP 200 with a true success flag and a data object that
\* holds group_id, and the result carries that group_id.  An HTTP 200 answer
\* whose body is no JSON, or whose body has the success flag and no
\* data.group_id, gives success:false with INTERNAL_ERROR.
C29_SuccessHasGroupId ==
    \A p \in Procs : \A t \in {"send_sms", "send_mms"} :
        Returned(p, t) =>
            /\ result[p].success = TRUE =>
                   /\ "kind" \in DOMAIN response[p]
                   /\ SuccessAnswer(response[p])
                   /\ CarriesGroupId(response[p])
                   /\ "group_id" \in DOMAIN result[p]
                   /\ result[p].group_id = response[p].body.val.v["data"].v["group_id"]
            /\ ("kind" \in DOMAIN response[p]
                    /\ response[p].kind = "http" /\ response[p].status_code = 200
                    /\ \/ ~ response[p].body.json
                       \/ SuccessAnswer(response[p]) /\ ~ CarriesGroupId(response[p]))
                   => HasCode(result[p], "INTERNAL_ERROR")

\* send_mms got HTTP 200 with success true and no data, and returned
\* INTERNAL_ERROR
C29_Witness ==
    \E p \in Procs :
        /\ Answered(p, "send_mms")
        /\ response[p] = Http(200, Json(JObj([success |-> JBool(TRUE)])))
        /\ HasCode(result[p], "INTERNAL_ERROR")

\* the answer reports success with an empty list of records, or with no data
NoRecords(resp) ==
    /\ SuccessAnswer(resp)
    /\ "data" \in DOMAIN resp.body.val.v => resp.body.val.v["data"] = JArr(<<>>)

\* C30: when the remote reports success with an empty list of delivery
\* records, or with no data field, get_message_status returns total_count,
\* success_count, failed_count and pending_count 0, no message, and the
\* overall status "성공".
C30_EmptyRecords ==
    \A p \in Procs :
        (Answered(p, "get_message_status") /\ NoRecords(response[p])) =>
            /\ "status" \in DOMAIN result[p]
            /\ result[p].total_count = 0
            /\ result[p].success_count = 0
            /\ result[p].failed_count = 0
            /\ result[p].pending_count = 0
            /\ result[p].messages = <<>>
            /\ result[p].status = RESULT_SUCCESS
            /\ result[p].status \notin {STATUS_SENDING, RESULT_FAILED}

\* get_message_status got success with an empty data list and returned the
\* counts 0
C30_Witness ==
    \E p \in Procs :
        /\ Answered(p, "get_message_status")
        /\ response[p] = Http(200, Json(JObj([success |-> JBool(TRUE), data |-> JArr(<<>>)])))
        /\ "status" \in DOMAIN result[p]
        /\ result[p].total_count = 0

\* a handler hands a request to the client in this step
IssuesRequest == \E p \in Procs : Len(net'[p]) > Len(net[p])

\* C27: the client made at the start of the process is open until main()
\* leaves the message loop and is closed when main() has ended, by a return
\* and by an exception alike; client.aclose() is called at most once, a
\* closed client is not opened again, and a handler issues a request only
\* while the message loop runs and the client is open.
C27_ClientLifetime ==
    /\ [](main \in {"start", "run"} => ~ client.is_closed)
    /\ [](main \in {"returned", "raised"} => client.is_closed)
    /\ [](client.aclose_calls <= 1)
    /\ [][client.is_closed => client'.is_closed]_vars
    /\ [][IssuesRequest => (main = "run" /\ ~ client.is_closed /\ ~ client'.is_closed)]_vars

\* the message loop raised and main() has ended with the client closed by
\* one call of aclose
C27_Witness ==
    /\ main = "raised"
    /\ client.is_closed
    /\ client.aclose_calls = 1

====
